---- MODULE Spec2Model ----
(***************************************************************************)
(* A model of the rope of support/rope (a B+-tree variant whose internal   *)
(* nodes cache cumulative offsets), instantiated as in its unit tests:     *)
(* Rope<String, isize>, where to_offset of a string is its length.         *)
(*                                                                         *)
(* Indices (cursor entries, positions in a node) are 0-based as in the     *)
(* source; TLA+ sequences are 1-based, hence the "+ 1" at every access.    *)
(***************************************************************************)
EXTENDS Integers, Sequences, FiniteSets, Bags, TLC

\* root, len: the fields of the Rope.  cursor: the Cursor the client holds,
\* if any.  last: the last call made, with its argument, its return value
\* and, for a mutation, the height of the tree before it.  lineset: the
\* Lineset of tcw3/src/ui/scrolling/lineset.rs, a client of the rope.
VARIABLES root, len, cursor, last, lineset

vars == <<root, len, cursor, last, lineset>>

(***************************************************************************)
(* Bounds of the model.                                                    *)
(***************************************************************************)

\* lib.rs:42 sets ORDER_SHIFT to 3.  The model scales the branching factor
\* down so that leaf splits, internal splits, root growth, rotations, merges
\* and root collapse all happen within a dozen elements.
ORDER_SHIFT == 1

\* The largest total offset (offset_len) the rope is grown to.
MaxOffsetLen == 12

\* The elements (strings, as sequences of characters) the operations draw from.
Elems == { <<"a">>, <<"b", "b">> }

(***************************************************************************)
(* Option values and sequence helpers (0-based, as Vec / ArrayVec).        *)
(***************************************************************************)

None == [tag |-> "None"]

Some(v) == [tag |-> "Some", val |-> v]

\* ArrayVec::insert(i, x)
VecInsert(s, i, x) == SubSeq(s, 1, i) \o <<x>> \o SubSeq(s, i + 1, Len(s))

\* ArrayVec::remove(i): the sequence that is left
VecRemove(s, i) == SubSeq(s, 1, i) \o SubSeq(s, i + 2, Len(s))

\* s[from..], the elements a drain(from..) yields
VecFrom(s, from) == SubSeq(s, from + 1, Len(s))

\* s[..to], what a drain(to..) leaves behind
VecUpTo(s, to) == SubSeq(s, 1, to)

\* `for offset in offsets[i..].iter_mut() { *offset += d }`
AddFrom(offsets, i, d) ==
    [j \in 1..Len(offsets) |-> IF j >= i + 1 THEN offsets[j] + d ELSE offsets[j]]

\* `offsets.map(|o| o + d)`
AddAll(offsets, d) == [j \in 1..Len(offsets) |-> offsets[j] + d]

(***************************************************************************)
(* The data model (lib.rs).                                                *)
(***************************************************************************)

ORDER == 2 ^ ORDER_SHIFT

\* The capacity of a leaf's and of an internal node's ArrayVec.
Capacity == ORDER * 2

\* <String as ToOffset<isize>>::to_offset: the length of the string.
ToOffset(e) == Len(e)

Leaf(elements) == [kind |-> "Leaf", elements |-> elements]

Internal(children, offsets) ==
    [kind |-> "Internal", children |-> children, offsets |-> offsets]

IsInternal(node) == node.kind = "Internal"

IsLeaf(node) == node.kind = "Leaf"

\* NodeRef::len
NodeLen(node) == IF IsInternal(node) THEN Len(node.children) ELSE Len(node.elements)

\* Faulty variant of IsEmpty: any leaf root counts as empty
IsEmpty_any_leaf(r) == IsLeaf(r)

\* Rope::is_empty
IsEmpty(r) == IF IsLeaf(r) THEN Len(r.elements) = 0 ELSE FALSE

\* `elements.iter().map(ToOffset::to_offset).fold(O::zero(), |x, y| x + y)`
RECURSIVE SumOffsets(_)
SumOffsets(elements) ==
    IF elements = <<>> THEN 0
    ELSE ToOffset(Head(elements)) + SumOffsets(Tail(elements))

(***************************************************************************)
(* Cursors (ops.rs).  A cursor is the sequence Cursor::indices.            *)
(***************************************************************************)

\* Faulty variant of end_generic: the walk goes down the first child
RECURSIVE end_generic_first_child(_, _)
end_generic_first_child(node, past_end) ==
    IF IsInternal(node)
    THEN <<Len(node.children) - 1>>
             \o end_generic_first_child(node.children[1], past_end)
    ELSE <<Len(node.elements) - (IF past_end THEN 0 ELSE 1)>>

RECURSIVE end_generic(_, _)
end_generic(node, past_end) ==
    IF IsInternal(node)
    THEN <<Len(node.children) - 1>>
             \o end_generic(node.children[Len(node.children)], past_end)
    ELSE <<Len(node.elements) - (IF past_end THEN 0 ELSE 1)>>

\* Faulty variant of last_cursor: the one-past-end position
last_cursor_past_end(r) == end_generic(r, TRUE)

last_cursor(r) == end_generic(r, FALSE)

end(r) == end_generic(r, TRUE)

RECURSIVE begin(_)
begin(node) ==
    IF IsInternal(node) THEN <<0>> \o begin(node.children[1]) ELSE <<0>>

\* Faulty variant of get_at: the index into the leaf is ignored
RECURSIVE get_at_leaf_front(_, _)
get_at_leaf_front(node, at) ==
    IF IsInternal(node)
    THEN get_at_leaf_front(node.children[at[1] + 1], Tail(at))
    ELSE node.elements[1]

\* Rope::get_at
RECURSIVE get_at(_, _)
get_at(node, at) ==
    IF IsInternal(node)
    THEN get_at(node.children[at[1] + 1], Tail(at))
    ELSE node.elements[at[1] + 1]

(***************************************************************************)
(* Insertion (ops.rs).                                                     *)
(***************************************************************************)

\* Faulty variant of insert_leaf: in a split, the new element is pushed to the
\* new leaf before the elements in front of it
insert_leaf_pushed_first(node, i, x) ==
    LET elements == node.elements IN
    IF Len(elements) = Capacity
    THEN LET mid == Capacity \div 2
             second_half == VecFrom(elements, mid)
             kept == VecUpTo(elements, mid)
             new_leaf == IF i >= mid THEN <<x>> \o second_half ELSE second_half
             elements2 == IF i >= mid THEN kept ELSE VecInsert(kept, i, x)
             first_half_len == SumOffsets(elements2)
         IN [node |-> Leaf(elements2),
             ret |-> Some(<<Leaf(new_leaf), first_half_len>>)]
    ELSE [node |-> Leaf(VecInsert(elements, i, x)), ret |-> None]

\* Faulty variant of insert_leaf: in a split, the length of the first half is
\* summed before the new element is inserted into it
insert_leaf_len_before_insert(node, i, x) ==
    LET elements == node.elements IN
    IF Len(elements) = Capacity
    THEN LET mid == Capacity \div 2
             second_half == VecFrom(elements, mid)
             kept == VecUpTo(elements, mid)
             new_leaf == IF i >= mid
                         THEN SubSeq(second_half, 1, i - mid) \o <<x>>
                                  \o VecFrom(second_half, i - mid)
                         ELSE second_half
             elements2 == IF i >= mid THEN kept ELSE VecInsert(kept, i, x)
             first_half_len == SumOffsets(kept)
         IN [node |-> Leaf(elements2),
             ret |-> Some(<<Leaf(new_leaf), first_half_len>>)]
    ELSE [node |-> Leaf(VecInsert(elements, i, x)), ret |-> None]

\* insert_sub on a leaf.  The result is the node as the call leaves it and
\* the function's return value, Option<(new_sibling, new_len)>.
insert_leaf(node, i, x) ==
    LET elements == node.elements IN
    IF Len(elements) = Capacity
    THEN LET mid == Capacity \div 2
             second_half == VecFrom(elements, mid)
             kept == VecUpTo(elements, mid)
             new_leaf == IF i >= mid
                         THEN SubSeq(second_half, 1, i - mid) \o <<x>>
                                  \o VecFrom(second_half, i - mid)
                         ELSE second_half
             elements2 == IF i >= mid THEN kept ELSE VecInsert(kept, i, x)
             first_half_len == SumOffsets(elements2)
         IN [node |-> Leaf(elements2),
             ret |-> Some(<<Leaf(new_leaf), first_half_len>>)]
    ELSE [node |-> Leaf(VecInsert(elements, i, x)), ret |-> None]

\* Faulty variant of insert_offset: the offset of the children in front is
\* not added
insert_offset_relative(offsets, i, new_len) == VecInsert(offsets, i, new_len)

\* `inode.offsets.insert(i, ...)` after `inode.children.insert(i + 1, ...)`
insert_offset(offsets, i, new_len) ==
    IF i = 0
    THEN VecInsert(offsets, i, new_len)
    ELSE VecInsert(offsets, i, offsets[i] + new_len)

\* Faulty variant of insert_split_child: the new sibling is inserted without
\* the test for a full node
insert_split_child_unsplit(children, offsets, i, new_sibling, new_len) ==
    [node |-> Internal(VecInsert(children, i + 1, new_sibling),
                       insert_offset(offsets, i, new_len)),
     ret |-> None]

\* Faulty variant of insert_split_child: in a split, the offsets of the second
\* half are left relative to the first child of the node that was split
insert_split_child_offsets_unadjusted(children, offsets, i, new_sibling, new_len) ==
    IF Len(children) = Capacity
    THEN LET mid == Capacity \div 2
             second_half_children == VecFrom(children, mid)
             kept_children == VecUpTo(children, mid)
             drained_offsets == VecFrom(offsets, mid - 1)
             kept_offsets == VecUpTo(offsets, mid - 1)
             first_half_len == Head(drained_offsets)
             second_half_offsets == Tail(drained_offsets)
             taken == SubSeq(second_half_offsets, 1, i - mid)
         IN IF i >= mid
            THEN [node |-> Internal(kept_children, kept_offsets),
                  ret |-> Some(<<Internal(
                      SubSeq(second_half_children, 1, i + 1 - mid)
                          \o <<new_sibling>>
                          \o VecFrom(second_half_children, i + 1 - mid),
                      taken
                          \o (IF taken # <<>>
                              THEN <<taken[Len(taken)] + new_len>>
                              ELSE <<new_len>>)
                          \o VecFrom(second_half_offsets, i - mid)),
                      first_half_len>>)]
            ELSE [node |-> Internal(VecInsert(kept_children, i + 1, new_sibling),
                                    insert_offset(kept_offsets, i, new_len)),
                  ret |-> Some(<<Internal(second_half_children, second_half_offsets),
                                 first_half_len>>)]
    ELSE [node |-> Internal(VecInsert(children, i + 1, new_sibling),
                            insert_offset(offsets, i, new_len)),
          ret |-> None]

\* insert_sub on an internal node whose child i has been split: `children`
\* already holds the updated child i, `offsets` the entries with x_len added.
insert_split_child(children, offsets, i, new_sibling, new_len) ==
    IF Len(children) = Capacity
    THEN LET mid == Capacity \div 2
             second_half_children == VecFrom(children, mid)
             kept_children == VecUpTo(children, mid)
             drained_offsets == VecFrom(offsets, mid - 1)
             kept_offsets == VecUpTo(offsets, mid - 1)
             first_half_len == Head(drained_offsets)
             second_half_offsets == AddAll(Tail(drained_offsets), -first_half_len)
             taken == SubSeq(second_half_offsets, 1, i - mid)
         IN IF i >= mid
            THEN [node |-> Internal(kept_children, kept_offsets),
                  ret |-> Some(<<Internal(
                      SubSeq(second_half_children, 1, i + 1 - mid)
                          \o <<new_sibling>>
                          \o VecFrom(second_half_children, i + 1 - mid),
                      taken
                          \o (IF taken # <<>>
                              THEN <<taken[Len(taken)] + new_len>>
                              ELSE <<new_len>>)
                          \o VecFrom(second_half_offsets, i - mid)),
                      first_half_len>>)]
            ELSE [node |-> Internal(VecInsert(kept_children, i + 1, new_sibling),
                                    insert_offset(kept_offsets, i, new_len)),
                  ret |-> Some(<<Internal(second_half_children, second_half_offsets),
                                 first_half_len>>)]
    ELSE [node |-> Internal(VecInsert(children, i + 1, new_sibling),
                            insert_offset(offsets, i, new_len)),
          ret |-> None]

\* Faulty variant of insert_sub: the offsets of an internal node are adjusted
\* from the entry after the path index on
RECURSIVE insert_sub_offsets_late(_, _, _, _)
insert_sub_offsets_late(at, node, x, x_len) ==
    LET i == at[1] IN
    IF Len(at) = 1
    THEN insert_leaf(node, i, x)
    ELSE LET offsets == AddFrom(node.offsets, i + 1, x_len)
             sub == insert_sub_offsets_late(Tail(at), node.children[i + 1], x, x_len)
             children == [node.children EXCEPT ![i + 1] = sub.node]
         IN IF sub.ret # None
            THEN insert_split_child(children, offsets, i,
                                    sub.ret.val[1], sub.ret.val[2])
            ELSE [node |-> Internal(children, offsets), ret |-> None]

RECURSIVE insert_sub(_, _, _, _)
insert_sub(at, node, x, x_len) ==
    LET i == at[1] IN
    IF Len(at) = 1
    THEN insert_leaf(node, i, x)
    ELSE LET offsets == AddFrom(node.offsets, i, x_len)
             sub == insert_sub(Tail(at), node.children[i + 1], x, x_len)
             children == [node.children EXCEPT ![i + 1] = sub.node]
         IN IF sub.ret # None
            THEN insert_split_child(children, offsets, i,
                                    sub.ret.val[1], sub.ret.val[2])
            ELSE [node |-> Internal(children, offsets), ret |-> None]

\* Faulty variant of insert: `self.len += len` is skipped when the root splits
insert_len_skipped(r, l, x, at) ==
    LET x_len == ToOffset(x)
        sub == insert_sub(at, r, x, x_len)
    IN [root |-> IF sub.ret # None
                 THEN Internal(<<sub.node, sub.ret.val[1]>>, <<sub.ret.val[2]>>)
                 ELSE sub.node,
        len |-> IF sub.ret # None THEN l ELSE l + x_len]

\* Faulty variant of insert: when an internal root splits, the new sibling is
\* pushed among the old root's children instead of under a new root
insert_sibling_among_children(r, l, x, at) ==
    LET x_len == ToOffset(x)
        sub == insert_sub(at, r, x, x_len)
    IN [root |-> IF sub.ret # None
                 THEN IF IsInternal(sub.node)
                      THEN Internal(Append(sub.node.children, sub.ret.val[1]),
                                    Append(sub.node.offsets, sub.ret.val[2]))
                      ELSE Internal(<<sub.node, sub.ret.val[1]>>, <<sub.ret.val[2]>>)
                 ELSE sub.node,
        len |-> l + x_len]

\* Faulty variant of insert: the offset pushed to a new root is the length of
\* the rope before the call
insert_old_len_pushed(r, l, x, at) ==
    LET x_len == ToOffset(x)
        sub == insert_sub(at, r, x, x_len)
    IN [root |-> IF sub.ret # None
                 THEN Internal(<<sub.node, sub.ret.val[1]>>, <<l>>)
                 ELSE sub.node,
        len |-> l + x_len]

\* Rope::insert: the rope (root and cached len) after the call
insert(r, l, x, at) ==
    LET x_len == ToOffset(x)
        sub == insert_sub(at, r, x, x_len)
    IN [root |-> IF sub.ret # None
                 THEN Internal(<<sub.node, sub.ret.val[1]>>, <<sub.ret.val[2]>>)
                 ELSE sub.node,
        len |-> l + x_len]

(***************************************************************************)
(* Search (ops.rs).  A comparator `|probe| probe.cmp(&x)` is the record    *)
(* [x |-> x]; a predicate handed to search_by is one of the two closures   *)
(* inclusive_lower_bound_by and inclusive_upper_bound_by build from it.    *)
(***************************************************************************)

\* Faulty variant of Cmp: an equal probe compares as less
Cmp_never_equal(c, probe) ==
    IF probe <= c.x THEN "Less" ELSE "Greater"

\* `probe.cmp(&x)`
Cmp(c, probe) ==
    IF probe < c.x THEN "Less" ELSE IF probe = c.x THEN "Equal" ELSE "Greater"

\* Faulty variant of LowerPred: the closure of the upper bound
LowerPred_not_less(c) == [cmp |-> c, test |-> "NotLess"]

\* `|offset| f(offset) == Ordering::Greater`
LowerPred(c) == [cmp |-> c, test |-> "Greater"]

\* Faulty variant of UpperPred: the closure of the lower bound
UpperPred_greater(c) == [cmp |-> c, test |-> "Greater"]

\* `|offset| f(offset) != Ordering::Less`
UpperPred(c) == [cmp |-> c, test |-> "NotLess"]

\* Faulty variant of Apply: every predicate tests for not less
Apply_not_less(f, offset) == Cmp(f.cmp, offset) # "Less"

\* The call f(&offset) of a predicate
Apply(f, offset) ==
    IF f.test = "Greater"
    THEN Cmp(f.cmp, offset) = "Greater"
    ELSE Cmp(f.cmp, offset) # "Less"

\* Faulty variant of search_inode: the offsets are added to the running offset
RECURSIVE search_inode_running(_, _, _, _, _)
search_inode_running(offsets, f, offset, i, next_offset) ==
    IF i < Len(offsets)
    THEN LET next_child_offset == next_offset + offsets[i + 1]
         IN IF Apply(f, next_child_offset)
            THEN <<i, next_offset>>
            ELSE search_inode_running(offsets, f, offset, i + 1, next_child_offset)
    ELSE <<i, next_offset>>

\* The `while i < inode.offsets.len()` loop of search_by: <<i, next_offset>>
RECURSIVE search_inode(_, _, _, _, _)
search_inode(offsets, f, offset, i, next_offset) ==
    IF i < Len(offsets)
    THEN LET next_child_offset == offset + offsets[i + 1]
         IN IF Apply(f, next_child_offset)
            THEN <<i, next_offset>>
            ELSE search_inode(offsets, f, offset, i + 1, next_child_offset)
    ELSE <<i, next_offset>>

\* Faulty variant of search_leaf: the offset returned for a match is that of
\* the element's right boundary
RECURSIVE search_leaf_right_boundary(_, _, _, _)
search_leaf_right_boundary(elements, f, offset, i) ==
    IF i + 1 < Len(elements)
    THEN LET next_offset == offset + ToOffset(elements[i + 1])
         IN IF Apply(f, next_offset)
            THEN <<i, next_offset>>
            ELSE search_leaf_right_boundary(elements, f, next_offset, i + 1)
    ELSE <<i, offset>>

\* Faulty variant of search_leaf: the loop stops at the element after the
\* first whose right boundary satisfies f
RECURSIVE search_leaf_next_element(_, _, _, _)
search_leaf_next_element(elements, f, offset, i) ==
    IF i + 1 < Len(elements)
    THEN LET next_offset == offset + ToOffset(elements[i + 1])
         IN IF Apply(f, next_offset)
            THEN <<i + 1, next_offset>>
            ELSE search_leaf_next_element(elements, f, next_offset, i + 1)
    ELSE <<i, offset>>

\* The `while i + 1 < elements.len()` loop of search_by: <<i, offset>>
RECURSIVE search_leaf(_, _, _, _)
search_leaf(elements, f, offset, i) ==
    IF i + 1 < Len(elements)
    THEN LET next_offset == offset + ToOffset(elements[i + 1])
         IN IF Apply(f, next_offset)
            THEN <<i, offset>>
            ELSE search_leaf(elements, f, next_offset, i + 1)
    ELSE <<i, offset>>

\* The descent loop of search_by: <<cursor, offset>>
RECURSIVE search_descend(_, _, _)
search_descend(node, f, offset) ==
    IF IsInternal(node)
    THEN LET s == search_inode(node.offsets, f, offset, 0, offset)
             sub == search_descend(node.children[s[1] + 1], f, s[2])
         IN <<(<<s[1]>> \o sub[1]), sub[2]>>
    ELSE LET s == search_leaf(node.elements, f, offset, 0)
         IN <<(<<s[1]>>), s[2]>>

\* Faulty variant of search_by: no early return for a predicate true at zero
search_by_unchecked_zero(r, l, f) ==
    IF ~Apply(f, l) THEN Some(<<end(r), l>>)
    ELSE Some(search_descend(r, f, 0))

\* Rope::search_by: Option<(Cursor, O)>
search_by(r, l, f) ==
    IF Apply(f, 0) THEN None
    ELSE IF ~Apply(f, l) THEN Some(<<end(r), l>>)
    ELSE Some(search_descend(r, f, 0))

inclusive_lower_bound_by(r, l, c) == search_by(r, l, LowerPred(c))

\* Faulty variant of inclusive_upper_bound_by: the search of the lower bound
inclusive_upper_bound_by_greater(r, l, c) == search_by(r, l, LowerPred(c))

inclusive_upper_bound_by(r, l, c) == search_by(r, l, UpperPred(c))

(***************************************************************************)
(* Removal (ops.rs).                                                       *)
(***************************************************************************)

\* Faulty variant of rotate_right: the moved entry is pushed to the back of
\* `right`
rotate_right_to_back(left, right, left_len) ==
    IF IsLeaf(left)
    THEN LET e == left.elements[Len(left.elements)]
         IN [left |-> Leaf(VecUpTo(left.elements, Len(left.elements) - 1)),
             right |-> Leaf(Append(right.elements, e)),
             len |-> ToOffset(e)]
    ELSE LET l == left_len - left.offsets[Len(left.offsets)]
             e == left.children[Len(left.children)]
         IN [left |-> Internal(VecUpTo(left.children, Len(left.children) - 1),
                               VecUpTo(left.offsets, Len(left.offsets) - 1)),
             right |-> Internal(Append(right.children, e),
                                VecInsert(AddAll(right.offsets, l), 0, l)),
             len |-> l]

\* rotate_right: the two nodes as the call leaves them and the returned len
rotate_right(left, right, left_len) ==
    IF IsLeaf(left)
    THEN LET e == left.elements[Len(left.elements)]
         IN [left |-> Leaf(VecUpTo(left.elements, Len(left.elements) - 1)),
             right |-> Leaf(VecInsert(right.elements, 0, e)),
             len |-> ToOffset(e)]
    ELSE LET l == left_len - left.offsets[Len(left.offsets)]
             e == left.children[Len(left.children)]
         IN [left |-> Internal(VecUpTo(left.children, Len(left.children) - 1),
                               VecUpTo(left.offsets, Len(left.offsets) - 1)),
             right |-> Internal(VecInsert(right.children, 0, e),
                                VecInsert(AddAll(right.offsets, l), 0, l)),
             len |-> l]

\* Faulty variant of rotate_left: the moved entry is put at the front of `left`
rotate_left_to_front(left, right, left_len) ==
    IF IsLeaf(left)
    THEN LET e == right.elements[1]
         IN [left |-> Leaf(VecInsert(left.elements, 0, e)),
             right |-> Leaf(VecRemove(right.elements, 0)),
             len |-> ToOffset(e)]
    ELSE LET e == right.children[1]
             l == right.offsets[1]
         IN [left |-> Internal(VecInsert(left.children, 0, e),
                               Append(left.offsets, left_len)),
             right |-> Internal(VecRemove(right.children, 0),
                                AddAll(VecRemove(right.offsets, 0), -l)),
             len |-> l]

\* rotate_left
rotate_left(left, right, left_len) ==
    IF IsLeaf(left)
    THEN LET e == right.elements[1]
         IN [left |-> Leaf(Append(left.elements, e)),
             right |-> Leaf(VecRemove(right.elements, 0)),
             len |-> ToOffset(e)]
    ELSE LET e == right.children[1]
             l == right.offsets[1]
         IN [left |-> Internal(Append(left.children, e),
                               Append(left.offsets, left_len)),
             right |-> Internal(VecRemove(right.children, 0),
                                AddAll(VecRemove(right.offsets, 0), -l)),
             len |-> l]

\* Faulty variant of rotate_left_full: the entries of `right` are put in
\* front of those of `left`
rotate_left_full_in_front(left, right, left_len) ==
    IF IsLeaf(left)
    THEN Leaf(right.elements \o left.elements)
    ELSE Internal(right.children \o left.children,
                  Append(left.offsets, left_len) \o AddAll(right.offsets, left_len))

\* rotate_left_full: `left` as the call leaves it (`right` is left drained)
rotate_left_full(left, right, left_len) ==
    IF IsLeaf(left)
    THEN Leaf(left.elements \o right.elements)
    ELSE Internal(left.children \o right.children,
                  Append(left.offsets, left_len) \o AddAll(right.offsets, left_len))

\* Faulty variant of has_surplus: a sibling at the minimum lends too
has_surplus_at_minimum(sibling) == NodeLen(sibling) >= ORDER

\* `inode.children[i + 1].len() > ORDER`, `inode.children[i - 1].len() > ORDER`:
\* the sibling can give an entry away
has_surplus(sibling) == NodeLen(sibling) > ORDER

\* Faulty variant of rebalance: a left sibling that can give an entry away is
\* preferred to a right one
rebalance_left_first(children, offsets, i) ==
    LET has_left == i > 0
        has_right == i + 1 < Len(children)
        rot_right == has_left /\ has_surplus(children[i])
        rot_left == ~rot_right /\ has_right /\ has_surplus(children[i + 2])
        use_left == IF rot_left THEN FALSE ELSE has_left
        rotate == rot_left \/ rot_right
        k == i - (IF use_left THEN 1 ELSE 0)
        left == children[k + 1]
        right == children[k + 2]
        left_len == IF k = 0 THEN offsets[1] ELSE offsets[k + 1] - offsets[k]
    IN IF rotate
       THEN LET rot == IF use_left
                       THEN rotate_right(left, right, left_len)
                       ELSE rotate_left(left, right, left_len)
                displacement == IF use_left THEN -rot.len ELSE rot.len
            IN [node |-> Internal(
                    [children EXCEPT ![k + 1] = rot.left, ![k + 2] = rot.right],
                    [offsets EXCEPT ![k + 1] = @ + displacement]),
                underflow |-> FALSE]
       ELSE LET merged == rotate_left_full(left, right, left_len)
                children2 == VecRemove([children EXCEPT ![k + 1] = merged], k + 1)
            IN [node |-> Internal(children2, VecRemove(offsets, k)),
                underflow |-> Len(children2) < ORDER]

\* Faulty variant of rebalance: after a merge, underflow is reported when the
\* node is left with ORDER children
rebalance_underflow_at_order(children, offsets, i) ==
    LET has_left == i > 0
        has_right == i + 1 < Len(children)
        rot_left == has_right /\ has_surplus(children[i + 2])
        rot_right == ~rot_left /\ has_left /\ has_surplus(children[i])
        use_left == IF rot_left THEN FALSE ELSE has_left
        rotate == rot_left \/ rot_right
        k == i - (IF use_left THEN 1 ELSE 0)
        left == children[k + 1]
        right == children[k + 2]
        left_len == IF k = 0 THEN offsets[1] ELSE offsets[k + 1] - offsets[k]
    IN IF rotate
       THEN LET rot == IF use_left
                       THEN rotate_right(left, right, left_len)
                       ELSE rotate_left(left, right, left_len)
                displacement == IF use_left THEN -rot.len ELSE rot.len
            IN [node |-> Internal(
                    [children EXCEPT ![k + 1] = rot.left, ![k + 2] = rot.right],
                    [offsets EXCEPT ![k + 1] = @ + displacement]),
                underflow |-> FALSE]
       ELSE LET merged == rotate_left_full(left, right, left_len)
                children2 == VecRemove([children EXCEPT ![k + 1] = merged], k + 1)
            IN [node |-> Internal(children2, VecRemove(offsets, k)),
                underflow |-> Len(children2) <= ORDER]

\* Faulty variant of rebalance: the displacement of a rotation to the right
\* is not negated
rebalance_displacement_unsigned(children, offsets, i) ==
    LET has_left == i > 0
        has_right == i + 1 < Len(children)
        rot_left == has_right /\ has_surplus(children[i + 2])
        rot_right == ~rot_left /\ has_left /\ has_surplus(children[i])
        use_left == IF rot_left THEN FALSE ELSE has_left
        rotate == rot_left \/ rot_right
        k == i - (IF use_left THEN 1 ELSE 0)
        left == children[k + 1]
        right == children[k + 2]
        left_len == IF k = 0 THEN offsets[1] ELSE offsets[k + 1] - offsets[k]
    IN IF rotate
       THEN LET rot == IF use_left
                       THEN rotate_right(left, right, left_len)
                       ELSE rotate_left(left, right, left_len)
                displacement == rot.len
            IN [node |-> Internal(
                    [children EXCEPT ![k + 1] = rot.left, ![k + 2] = rot.right],
                    [offsets EXCEPT ![k + 1] = @ + displacement]),
                underflow |-> FALSE]
       ELSE LET merged == rotate_left_full(left, right, left_len)
                children2 == VecRemove([children EXCEPT ![k + 1] = merged], k + 1)
            IN [node |-> Internal(children2, VecRemove(offsets, k)),
                underflow |-> Len(children2) < ORDER]

\* The `if underflow` block of remove_sub: child i of the internal node
\* (children, offsets) ran under ORDER.  The node as the block leaves it and
\* the new value of `underflow`.
rebalance(children, offsets, i) ==
    LET has_left == i > 0
        has_right == i + 1 < Len(children)
        rot_left == has_right /\ has_surplus(children[i + 2])
        rot_right == ~rot_left /\ has_left /\ has_surplus(children[i])
        use_left == IF rot_left THEN FALSE ELSE has_left
        rotate == rot_left \/ rot_right
        k == i - (IF use_left THEN 1 ELSE 0)
        left == children[k + 1]
        right == children[k + 2]
        left_len == IF k = 0 THEN offsets[1] ELSE offsets[k + 1] - offsets[k]
    IN IF rotate
       THEN LET rot == IF use_left
                       THEN rotate_right(left, right, left_len)
                       ELSE rotate_left(left, right, left_len)
                displacement == IF use_left THEN -rot.len ELSE rot.len
            IN [node |-> Internal(
                    [children EXCEPT ![k + 1] = rot.left, ![k + 2] = rot.right],
                    [offsets EXCEPT ![k + 1] = @ + displacement]),
                underflow |-> FALSE]
       ELSE LET merged == rotate_left_full(left, right, left_len)
                children2 == VecRemove([children EXCEPT ![k + 1] = merged], k + 1)
            IN [node |-> Internal(children2, VecRemove(offsets, k)),
                underflow |-> Len(children2) < ORDER]

\* remove_sub: the node as the call leaves it and the returned
\* (elem, offset, underflow)
RECURSIVE remove_sub(_, _)
remove_sub(at, node) ==
    LET i == at[1] IN
    IF Len(at) = 1
    THEN LET elem == node.elements[i + 1]
             elements == VecRemove(node.elements, i)
         IN [node |-> Leaf(elements), elem |-> elem, len |-> ToOffset(elem),
             underflow |-> Len(elements) < ORDER]
    ELSE LET sub == remove_sub(Tail(at), node.children[i + 1])
             children == [node.children EXCEPT ![i + 1] = sub.node]
             offsets == AddFrom(node.offsets, i, -sub.len)
         IN IF sub.underflow
            THEN LET reb == rebalance(children, offsets, i)
                 IN [node |-> reb.node, elem |-> sub.elem, len |-> sub.len,
                     underflow |-> reb.underflow]
            ELSE [node |-> Internal(children, offsets), elem |-> sub.elem,
                  len |-> sub.len, underflow |-> FALSE]

\* Faulty variant of flatten_root_if_needed: the root is never replaced
flatten_root_never(node) == node

\* Rope::flatten_root_if_needed
flatten_root_if_needed(node) ==
    IF IsInternal(node)
    THEN IF Len(node.children) >= 2 THEN node
         ELSE node.children[Len(node.children)]
    ELSE node

\* Faulty variant of remove_at: `self.len += -offset` is skipped after an
\* underflow
remove_at_len_skipped(r, l, at) ==
    LET sub == remove_sub(at, r)
    IN [root |-> IF sub.underflow THEN flatten_root_if_needed(sub.node) ELSE sub.node,
        len |-> IF sub.underflow THEN l ELSE l - sub.len,
        ret |-> sub.elem]

\* Faulty variant of remove_at: the root is looked at when no underflow is
\* reported
remove_at_flatten_without_underflow(r, l, at) ==
    LET sub == remove_sub(at, r)
    IN [root |-> IF ~sub.underflow THEN flatten_root_if_needed(sub.node) ELSE sub.node,
        len |-> l - sub.len,
        ret |-> sub.elem]

\* Rope::remove_at: the rope after the call and the returned element
remove_at(r, l, at) ==
    LET sub == remove_sub(at, r)
    IN [root |-> IF sub.underflow THEN flatten_root_if_needed(sub.node) ELSE sub.node,
        len |-> l - sub.len,
        ret |-> sub.elem]

(***************************************************************************)
(* Update in place (ops.rs).                                               *)
(***************************************************************************)

\* The first loop of update_at_with: the tree with `f` applied to the
\* addressed element.  `f` replaces the element by `y`.
RECURSIVE update_elem(_, _, _)
update_elem(node, at, y) ==
    IF IsInternal(node)
    THEN Internal([node.children EXCEPT
                       ![at[1] + 1] = update_elem(@, Tail(at), y)],
                  node.offsets)
    ELSE Leaf([node.elements EXCEPT ![at[1] + 1] = y])

\* Faulty variant of adjust_offsets: the loop starts one entry late,
\* `inode.offsets[i + 1..]`
RECURSIVE adjust_offsets_late(_, _, _)
adjust_offsets_late(node, at, delta) ==
    IF IsInternal(node)
    THEN Internal([node.children EXCEPT
                       ![at[1] + 1] = adjust_offsets_late(@, Tail(at), delta)],
                  AddFrom(node.offsets, at[1] + 1, delta))
    ELSE node

\* The second loop of update_at_with ("Adjust offsets")
RECURSIVE adjust_offsets(_, _, _)
adjust_offsets(node, at, delta) ==
    IF IsInternal(node)
    THEN Internal([node.children EXCEPT
                       ![at[1] + 1] = adjust_offsets(@, Tail(at), delta)],
                  AddFrom(node.offsets, at[1], delta))
    ELSE node

\* Faulty variant of update_at_with: `self.len += delta` is missing
update_at_with_len_skipped(r, l, at, y) ==
    LET old == get_at(r, at)
        delta == ToOffset(y) - ToOffset(old)
    IN [root |-> adjust_offsets(update_elem(r, at, y), at, delta),
        len |-> l,
        ret |-> old]

\* Rope::update_at_with with `f = |e| std::mem::replace(e, y)`: the rope
\* after the call and the value `f` returned
update_at_with(r, l, at, y) ==
    LET old == get_at(r, at)
        delta == ToOffset(y) - ToOffset(old)
    IN [root |-> adjust_offsets(update_elem(r, at, y), at, delta),
        len |-> l + delta,
        ret |-> old]

\* Rope::pop_back: the rope after the call and the returned Option<T>
pop_back(r, l) ==
    IF IsEmpty(r) THEN [root |-> r, len |-> l, ret |-> None]
    ELSE [remove_at(r, l, last_cursor(r)) EXCEPT !.ret = Some(@)]

\* Rope::pop_front
pop_front(r, l) ==
    IF IsEmpty(r) THEN [root |-> r, len |-> l, ret |-> None]
    ELSE [remove_at(r, l, begin(r)) EXCEPT !.ret = Some(@)]

\* Rope::first
first(r) == IF IsEmpty(r) THEN None ELSE Some(get_at(r, begin(r)))

\* Rope::last
last_(r) == IF IsEmpty(r) THEN None ELSE Some(get_at(r, last_cursor(r)))

\* Faulty variant of find_one: the result of the bound search is returned as
\* it is
find_one_unfiltered(r, l, one) ==
    IF one.kind = "FirstAfter"
    THEN inclusive_lower_bound_by(r, l, one.cmp)
    ELSE inclusive_upper_bound_by(r, l, one.cmp)

\* Rope::find_one: Option<(Cursor, O)>.  `one` is One::FirstAfter or
\* One::LastBefore of a comparator.
find_one(r, l, one) ==
    LET co == IF one.kind = "FirstAfter"
              THEN inclusive_lower_bound_by(r, l, one.cmp)
              ELSE inclusive_upper_bound_by(r, l, one.cmp)
    IN IF co # None
       THEN IF co.val[1] = end(r) THEN None ELSE co
       ELSE None

(***************************************************************************)
(* Iteration and range queries.  Rope::range, Edge and the iterators live   *)
(* in iter.rs and sel.rs of the crate; they are modelled here on the bound  *)
(* searches of ops.rs, after the crate's description: a range is given by   *)
(* two edges, each the floor or the ceiling of an offset; it yields the     *)
(* elements between the edges, walking the leaves in tree order by cursor   *)
(* advancement, and the offsets the elements occupy; an empty or inverted   *)
(* range degenerates the end edge to the start edge.                        *)
(***************************************************************************)

\* The cursor after `at` within the subtree of `node`, or None when `at`
\* addresses the last element of the subtree
RECURSIVE step_next(_, _)
step_next(node, at) ==
    IF IsLeaf(node)
    THEN IF at[1] + 1 < Len(node.elements) THEN Some(<<at[1] + 1>>) ELSE None
    ELSE LET sub == step_next(node.children[at[1] + 1], Tail(at))
         IN IF sub # None
            THEN Some(<<at[1]>> \o sub.val)
            ELSE IF at[1] + 1 < Len(node.children)
                 THEN Some(<<at[1] + 1>> \o begin(node.children[at[1] + 2]))
                 ELSE None

\* Cursor advancement: the cursor of the next element, end() after the last
cursor_next(r, at) ==
    LET next == step_next(r, at)
    IN IF next = None THEN end(r) ELSE next.val

\* The cursor before `at` within the subtree of `node`, or None when `at`
\* addresses the first element of the subtree
RECURSIVE step_prev(_, _)
step_prev(node, at) ==
    IF IsLeaf(node)
    THEN IF at[1] > 0 THEN Some(<<at[1] - 1>>) ELSE None
    ELSE LET sub == step_prev(node.children[at[1] + 1], Tail(at))
         IN IF sub # None
            THEN Some(<<at[1]>> \o sub.val)
            ELSE IF at[1] > 0
                 THEN Some(<<at[1] - 1>> \o end_generic(node.children[at[1]], FALSE))
                 ELSE None

\* Cursor retreat: the cursor of the previous element (of the last one from
\* end())
cursor_prev(r, at) == step_prev(r, at).val

\* What the iterator over [from, to) yields front to back
RECURSIVE iter_forward(_, _, _)
iter_forward(r, from, to) ==
    IF from = to THEN <<>>
    ELSE <<get_at(r, from)>> \o iter_forward(r, cursor_next(r, from), to)

\* What the reversed iterator over [from, to) yields
RECURSIVE iter_rev(_, _, _)
iter_rev(r, from, to) ==
    IF from = to THEN <<>>
    ELSE LET prev == cursor_prev(r, to)
         IN <<get_at(r, prev)>> \o iter_rev(r, from, prev)

\* The (cursor, offset) of an element found by a bound search, moved past
\* that element
past_element(r, co) ==
    <<cursor_next(r, co[1]), co[2] + ToOffset(get_at(r, co[1]))>>

\* The (cursor, offset) an edge resolves to.  Floor: the element the offset
\* lies in (inclusive lower bound).  Ceil: the position after the element
\* the offset lies in or ends (inclusive upper bound).  Both: the front for
\* an offset in front of the rope, end() for one behind it.
edge_cursor(r, l, edge) ==
    LET co == IF edge.ty = "Floor"
              THEN inclusive_lower_bound_by(r, l, edge.cmp)
              ELSE inclusive_upper_bound_by(r, l, edge.cmp)
    IN IF co = None THEN <<begin(r), 0>>
       ELSE IF edge.ty = "Floor" \/ co.val[1] = end(r) THEN co.val
       ELSE past_element(r, co.val)

\* The end edge, degenerated to the start edge when it lies in front of it
clamp_end(start, end_) == IF end_[2] < start[2] THEN start ELSE end_

\* The range between two resolved edges: what its iterator yields forward and
\* reversed, and its offset range
range_between(r, start, end_) ==
    [elems |-> iter_forward(r, start[1], end_[1]),
     rev |-> iter_rev(r, start[1], end_[1]),
     offsets |-> <<start[2], end_[2]>>]

\* Rope::range(start_edge..end_edge)
range(r, l, start_edge, end_edge) ==
    LET start == edge_cursor(r, l, start_edge)
    IN range_between(r, start, clamp_end(start, edge_cursor(r, l, end_edge)))

(***************************************************************************)
(* The logical content of a tree: what iterating it front to back yields.  *)
(***************************************************************************)

RECURSIVE Flatten(_)
Flatten(node) ==
    IF IsLeaf(node) THEN node.elements
    ELSE LET RECURSIVE Cat(_)
             Cat(k) == IF k = 0 THEN <<>>
                       ELSE Cat(k - 1) \o Flatten(node.children[k])
         IN Cat(Len(node.children))

\* The number of levels of a tree
RECURSIVE Height(_)
Height(node) == IF IsLeaf(node) THEN 1 ELSE 1 + Height(node.children[1])

\* The number of elements in front of the position a cursor addresses
RECURSIVE CursorPos(_, _)
CursorPos(node, at) ==
    IF IsLeaf(node) THEN at[1]
    ELSE LET RECURSIVE Before(_)
             Before(k) == IF k = 0 THEN 0
                          ELSE Before(k - 1) + Len(Flatten(node.children[k]))
         IN Before(at[1]) + CursorPos(node.children[at[1] + 1], Tail(at))

(***************************************************************************)
(* The lineset (tcw3/src/ui/scrolling/lineset.rs), a client of the rope.   *)
(* It tracks the lines of a table in line groups, kept in a                *)
(* Rope<LineGr, LineOff>, and partitions the line groups into LOD groups,  *)
(* kept in a vector of starting points.  The rope is represented by the    *)
(* sequence of its elements, and the calls the lineset makes to it         *)
(* (range, update_with, insert_before, remove, push_back: sel.rs and       *)
(* iter.rs of the crate) by their effect on that sequence.  Only the line  *)
(* counts are modelled: the sizes of the lines (LineGr::size,              *)
(* LineOff::pos) come from the LinesetModel and decide no branch.          *)
(***************************************************************************)

\* The most lines a lineset holds
MaxLines == 10

\* The most calls made to a lineset
MaxCalls == 3

\* struct LineGr
LineGr(num_lines) == [num_lines |-> num_lines]

\* struct LodGr
LodGr(index, lod) == [index |-> index, lod |-> lod]

\* A Range<Index>
IndexRange(start, end_) == [start |-> start, end |-> end_]

Max(a, b) == IF a >= b THEN a ELSE b

\* `(0 as Index).leading_zeros() - n.leading_zeros()`: the bits of n
RECURSIVE BitLen(_)
BitLen(n) == IF n = 0 THEN 0 ELSE 1 + BitLen(n \div 2)

lod_size_range(lod) ==
    LET shift1 == lod - (IF lod > 0 THEN 1 ELSE 0)
        shift2 == lod
    IN IndexRange(2 ^ shift1, 2 ^ shift2)

min_lod_for_size(size) == BitLen(size - 1)

\* The index component of the total offset of the first k line groups
RECURSIVE SumLines(_, _)
SumLines(line_grs, k) ==
    IF k = 0 THEN 0 ELSE SumLines(line_grs, k - 1) + line_grs[k].num_lines

\* `line_grs.offset_len().index`
offset_len_index(line_grs) == SumLines(line_grs, Len(line_grs))

\* The position FirstAfter(by_key(LineOff::index, index)) selects: the first
\* line group that reaches beyond `index`, or None
FirstAfter(line_grs, index) ==
    IF index < 0 \/ index >= offset_len_index(line_grs) THEN None
    ELSE Some(CHOOSE k \in 0..(Len(line_grs) - 1) :
                  /\ SumLines(line_grs, k + 1) > index
                  /\ \A j \in 1..k : SumLines(line_grs, j) <= index)

\* `line_grs.update_with(FirstAfter(..), |line_gr, _| ..).unwrap()`
update_with(line_grs, index, num_lines) ==
    [line_grs EXCEPT ![FirstAfter(line_grs, index).val + 1] = LineGr(num_lines)]

\* `line_grs.insert_before(line_gr, FirstAfter(..)).unwrap()`
insert_before(line_grs, line_gr, index) ==
    VecInsert(line_grs, FirstAfter(line_grs, index).val, line_gr)

\* `line_grs.remove(FirstAfter(..)).unwrap()`: the rope left and the line
\* group removed
remove_one(line_grs, index) ==
    [line_grs |-> VecRemove(line_grs, FirstAfter(line_grs, index).val),
     ret |-> line_grs[FirstAfter(line_grs, index).val + 1]]

\* The position Floor(index) resolves to
FloorPos(line_grs, index) ==
    IF index < 0 THEN 0
    ELSE IF index >= offset_len_index(line_grs) THEN Len(line_grs)
    ELSE FirstAfter(line_grs, index).val

\* The position Ceil(index) resolves to
CeilPos(line_grs, index) ==
    IF index < 0 THEN 0
    ELSE IF index >= offset_len_index(line_grs) THEN Len(line_grs)
    ELSE CHOOSE k \in 0..Len(line_grs) :
             /\ SumLines(line_grs, k) >= index
             /\ \A j \in 0..(k - 1) : SumLines(line_grs, j) < index

\* `line_grs.range(range_by_key(LineOff::index, ..))` between two resolved
\* positions: the line groups and the index range they occupy
line_grs_range(line_grs, from, to) ==
    LET to_ == Max(from, to)
    IN [elems |-> SubSeq(line_grs, from + 1, to_),
        offsets |-> IndexRange(SumLines(line_grs, from), SumLines(line_grs, to_))]

\* `lod_grs.binary_search_by_key(&index, |g| g.index)`
binary_search_by_key(lod_grs, index) ==
    IF \E i \in 1..Len(lod_grs) : lod_grs[i].index = index
    THEN [ok |-> TRUE,
          i |-> (CHOOSE i \in 1..Len(lod_grs) : lod_grs[i].index = index) - 1]
    ELSE [ok |-> FALSE,
          i |-> Cardinality({ i \in 1..Len(lod_grs) : lod_grs[i].index < index })]

\* Faulty variant of shift_lod_grs: the LOD group at `from` stays
shift_lod_grs_behind(lod_grs, from, incr) ==
    [i \in 1..Len(lod_grs) |->
        IF i > from + 1 THEN LodGr(lod_grs[i].index + incr, lod_grs[i].lod)
        ELSE lod_grs[i]]

\* `for lod_gr in self.lod_grs[from..].iter_mut() { lod_gr.index += incr }`
shift_lod_grs(lod_grs, from, incr) ==
    [i \in 1..Len(lod_grs) |->
        IF i > from THEN LodGr(lod_grs[i].index + incr, lod_grs[i].lod)
        ELSE lod_grs[i]]

\* The end of LOD group i: the start of the next one, or `len`
lod_gr_end_of(lod_grs, i, len_) ==
    IF i + 1 < Len(lod_grs) THEN lod_grs[i + 2].index ELSE len_

vec_remove_range(v, range_) ==
    IF range_.end <= range_.start THEN v
    ELSE SubSeq(v, 1, range_.start) \o SubSeq(v, range_.end + 1, Len(v))

\* Lineset::new
Lineset_new == [line_grs |-> <<>>, lod_grs |-> <<>>]

\* Lineset::insert, `range.start == offset_len().index`: a new LOD group
insert_at_end(ls, range_) ==
    LET num_lines == range_.end - range_.start
        lod == min_lod_for_size(num_lines)
    IN [line_grs |-> Append(ls.line_grs, LineGr(num_lines)),
        lod_grs |-> Append(ls.lod_grs, LodGr(offset_len_index(ls.line_grs), lod))]

\* Lineset::insert, `if let Some((range2, size2)) = next` and the final
\* loop: range2 becomes a line group of its own, in a LOD group of its own
\* when it needs a higher LOD than lod_grs[lod_gr_i]
insert_range2(ls, lod_gr_i, range2, num_lines) ==
    LET lod == ls.lod_grs[lod_gr_i + 1].lod
        lod2 == Max(lod, min_lod_for_size(range2.end - range2.start))
        former_len == offset_len_index(ls.line_grs)
        line_gr == LineGr(range2.end - range2.start)
        lod_gr_start == ls.lod_grs[lod_gr_i + 1].index
        lod_gr_end == lod_gr_end_of(ls.lod_grs, lod_gr_i, former_len)
        at_start == range2.start = lod_gr_start
        lod_grs1 == IF at_start
                    THEN [ls.lod_grs EXCEPT ![lod_gr_i + 1].lod = lod2]
                    ELSE VecInsert(ls.lod_grs, lod_gr_i + 1, LodGr(range2.start, lod2))
        i1 == IF at_start THEN lod_gr_i ELSE lod_gr_i + 1
        lod_grs2 == IF range2.start < lod_gr_end
                    THEN VecInsert(lod_grs1, i1 + 1, LodGr(range2.end, lod))
                    ELSE lod_grs1
        i2 == IF range2.start < lod_gr_end THEN i1 + 1 ELSE i1
    IN [line_grs |-> IF range2.start = former_len
                     THEN Append(ls.line_grs, line_gr)
                     ELSE insert_before(ls.line_grs, line_gr, range2.start),
        lod_grs |-> IF lod2 > lod
                    THEN shift_lod_grs(lod_grs2, i2 + 1, num_lines)
                    ELSE shift_lod_grs(ls.lod_grs, lod_gr_i + 1, num_lines)]

\* Lineset::insert, the new lines go to an existing line group
insert_assimilated(ls, lod_gr_i, line_gr_start, line_gr, num_lines) ==
    [line_grs |-> update_with(ls.line_grs, line_gr_start,
                              line_gr.num_lines + num_lines),
     lod_grs |-> shift_lod_grs(ls.lod_grs, lod_gr_i + 1, num_lines)]

\* Lineset::insert, the line group with the new lines is divided in two
insert_halved(ls, lod_gr_i, line_gr_start, line_gr, num_lines) ==
    LET line_gr_end == line_gr_start + line_gr.num_lines
        new_gr_num_lines == line_gr.num_lines + num_lines
        new_gr_mid == line_gr_start + (new_gr_num_lines \div 2)
        second == update_with(ls.line_grs, line_gr_start,
                              line_gr_end + num_lines - new_gr_mid)
    IN [line_grs |-> insert_before(second, LineGr(new_gr_mid - line_gr_start),
                                   line_gr_start),
        lod_grs |-> shift_lod_grs(ls.lod_grs, lod_gr_i + 1, num_lines)]

\* Faulty variant of insert_split: the second half takes no line of the new
\* ones
insert_split_unadjusted(ls, lod_gr_i, line_gr_start, line_gr, range_) ==
    LET lod_size_range_ == lod_size_range(ls.lod_grs[lod_gr_i + 1].lod)
        line_gr_end == line_gr_start + line_gr.num_lines
        adj_num_lines == <<Max(0, lod_size_range_.start - (range_.start - line_gr_start)),
                           Max(0, lod_size_range_.start - (line_gr_end - range_.start))>>
        new_range == IndexRange(range_.start + adj_num_lines[1],
                                range_.end - adj_num_lines[2])
        second == update_with(ls.line_grs, line_gr_start, line_gr_end - range_.start)
        incr == adj_num_lines[1] + adj_num_lines[2]
    IN insert_range2(
           [line_grs |-> insert_before(
                             second,
                             LineGr(range_.start - line_gr_start + adj_num_lines[1]),
                             line_gr_start),
            lod_grs |-> shift_lod_grs(ls.lod_grs, lod_gr_i + 1, incr)],
           lod_gr_i, new_range, (range_.end - range_.start) - incr)

\* Lineset::insert, the line group is split in two at range.start, each
\* half takes the lines it lacks from the new ones, and the rest of the new
\* lines (new_range) is left to be inserted between the halves
insert_split(ls, lod_gr_i, line_gr_start, line_gr, range_) ==
    LET lod_size_range_ == lod_size_range(ls.lod_grs[lod_gr_i + 1].lod)
        line_gr_end == line_gr_start + line_gr.num_lines
        adj_num_lines == <<Max(0, lod_size_range_.start - (range_.start - line_gr_start)),
                           Max(0, lod_size_range_.start - (line_gr_end - range_.start))>>
        new_range == IndexRange(range_.start + adj_num_lines[1],
                                range_.end - adj_num_lines[2])
        second == update_with(ls.line_grs, line_gr_start,
                              line_gr_end - range_.start + adj_num_lines[2])
        incr == adj_num_lines[1] + adj_num_lines[2]
    IN insert_range2(
           [line_grs |-> insert_before(
                             second,
                             LineGr(range_.start - line_gr_start + adj_num_lines[1]),
                             line_gr_start),
            lod_grs |-> shift_lod_grs(ls.lod_grs, lod_gr_i + 1, incr)],
           lod_gr_i, new_range, (range_.end - range_.start) - incr)

\* Lineset::insert, `range.start < offset_len().index`
insert_inside(ls, range_) ==
    LET num_lines == range_.end - range_.start
        found == binary_search_by_key(ls.lod_grs, range_.start)
        lod_gr_i == IF found.ok THEN found.i ELSE found.i - 1
        lod_size_range_ == lod_size_range(ls.lod_grs[lod_gr_i + 1].lod)
        first_gr == line_grs_range(ls.line_grs, FloorPos(ls.line_grs, range_.start),
                                Len(ls.line_grs))
        line_gr == first_gr.elems[1]
        line_gr_start == first_gr.offsets.start
    IN IF range_.start # line_gr_start \/ num_lines < lod_size_range_.start
       THEN IF lod_size_range_.end - line_gr.num_lines >= num_lines
            THEN insert_assimilated(ls, lod_gr_i, line_gr_start, line_gr, num_lines)
            ELSE IF lod_size_range_.end * 2 - line_gr.num_lines >= num_lines
                 THEN insert_halved(ls, lod_gr_i, line_gr_start, line_gr, num_lines)
                 ELSE insert_split(ls, lod_gr_i, line_gr_start, line_gr, range_)
       ELSE insert_range2(ls, lod_gr_i, range_, num_lines)

\* Lineset::insert
Lineset_insert(ls, range_) ==
    IF range_.end <= range_.start THEN ls
    ELSE IF range_.start = offset_len_index(ls.line_grs)
         THEN insert_at_end(ls, range_)
         ELSE insert_inside(ls, range_)

\* Lineset::remove, the range lies inside one line group and leaves some of
\* it: the line group shrinks, and becomes the last of its LOD group when it
\* falls below the minimum
remove_within(ls, range_, lod_gr_i1, line_gr1, line_gr_range) ==
    LET num_lines == range_.end - range_.start
        lod1 == ls.lod_grs[lod_gr_i1 + 1].lod
        lod_gr_end == lod_gr_end_of(ls.lod_grs, lod_gr_i1,
                                    offset_len_index(ls.line_grs))
        remaining_num_lines == line_gr1.num_lines - num_lines
        lod_grs1 == IF /\ remaining_num_lines < lod_size_range(lod1).start
                       /\ line_gr_range.end < lod_gr_end
                    THEN VecInsert(ls.lod_grs, lod_gr_i1 + 1,
                                   LodGr(line_gr_range.end, lod1))
                    ELSE ls.lod_grs
    IN [line_grs |-> update_with(ls.line_grs, range_.start, remaining_num_lines),
        lod_grs |-> shift_lod_grs(lod_grs1, lod_gr_i1 + 1, 0 - num_lines)]

\* Lineset::remove, the ending point: the line group range.end lies in
\* keeps its lines behind range.end, and the LOD groups are split at
\* range.end.  Gives the lineset and lod_bulk_delete_end.
remove_end(ls, range_, line_gr2, line_gr_range) ==
    LET found == binary_search_by_key(ls.lod_grs, range_.end)
        lod_gr_i2 == found.i - 1
        lod2 == ls.lod_grs[lod_gr_i2 + 1].lod
        lod_gr2_start == ls.lod_grs[lod_gr_i2 + 1].index
        lod_gr2_end == lod_gr_end_of(ls.lod_grs, lod_gr_i2,
                                     offset_len_index(ls.line_grs))
        line_gr2_start == line_gr_range.end - line_gr2.val.num_lines
        remaining_num_lines == line_gr_range.end - range_.end
        lod_grs1 == IF /\ remaining_num_lines < lod_size_range(lod2).start
                       /\ line_gr_range.end < lod_gr2_end
                    THEN VecInsert(ls.lod_grs, lod_gr_i2 + 1,
                                   LodGr(line_gr_range.end, lod2))
                    ELSE ls.lod_grs
    IN IF range_.end < line_gr_range.end
       THEN [line_grs |-> update_with(ls.line_grs, range_.end, remaining_num_lines),
             lod_grs |-> IF lod_gr2_start < line_gr2_start
                         THEN VecInsert(lod_grs1, lod_gr_i2 + 1,
                                        LodGr(range_.end, lod2))
                         ELSE [lod_grs1 EXCEPT ![lod_gr_i2 + 1].index = range_.end],
             lod_bulk_delete_end |-> IF lod_gr2_start < line_gr2_start
                                     THEN lod_gr_i2 + 1
                                     ELSE lod_gr_i2]
       ELSE [line_grs |-> ls.line_grs,
             lod_grs |-> IF lod_gr2_end > range_.end
                         THEN VecInsert(ls.lod_grs, lod_gr_i2 + 1,
                                        LodGr(range_.end, lod2))
                         ELSE ls.lod_grs,
             lod_bulk_delete_end |-> lod_gr_i2 + 1]

\* Faulty variant of bulk_delete: one line group is removed
bulk_delete_once(line_grs, bulk_delete_start, num_bulk_deleted_lines) ==
    IF num_bulk_deleted_lines > 0
    THEN remove_one(line_grs, bulk_delete_start).line_grs
    ELSE line_grs

\* Lineset::remove, `while num_bulk_deleted_lines > 0`
RECURSIVE bulk_delete(_, _, _)
bulk_delete(line_grs, bulk_delete_start, num_bulk_deleted_lines) ==
    IF num_bulk_deleted_lines > 0
    THEN bulk_delete(remove_one(line_grs, bulk_delete_start).line_grs,
                     bulk_delete_start,
                     num_bulk_deleted_lines
                         - remove_one(line_grs, bulk_delete_start).ret.num_lines)
    ELSE line_grs

\* Lineset::remove, after the ending point: the whole line groups inside the
\* range and the LOD groups starting in them are removed, the line group
\* range.start lies in keeps its lines before range.start, and the LOD
\* groups behind move up
remove_bulk(ended, range_, lod_gr_i1, line_gr1, line_gr2, line_gr_range) ==
    LET lod_gr1_start == ended.lod_grs[lod_gr_i1 + 1].index
        bulk_delete_start == IF range_.start > line_gr_range.start
                             THEN line_gr_range.start + line_gr1.num_lines
                             ELSE line_gr_range.start
        bulk_delete_end == IF range_.end < line_gr_range.end
                           THEN line_gr_range.end - line_gr2.val.num_lines
                           ELSE line_gr_range.end
        deleted == bulk_delete(ended.line_grs, bulk_delete_start,
                               bulk_delete_end - bulk_delete_start)
        lod_bulk_delete_start == IF lod_gr1_start = bulk_delete_start
                                 THEN lod_gr_i1
                                 ELSE lod_gr_i1 + 1
        lod_grs1 == vec_remove_range(
                        ended.lod_grs,
                        IndexRange(lod_bulk_delete_start, ended.lod_bulk_delete_end))
    IN [line_grs |-> IF range_.start > line_gr_range.start
                     THEN update_with(deleted, range_.start,
                                      range_.start - line_gr_range.start)
                     ELSE deleted,
        lod_grs |-> shift_lod_grs(lod_grs1, lod_bulk_delete_start,
                                  0 - (range_.end - range_.start))]

\* Lineset::remove, `range.start < range.end`
remove_lines(ls, range_) ==
    LET found == binary_search_by_key(ls.lod_grs, range_.start)
        lod_gr_i1 == IF found.ok THEN found.i ELSE found.i - 1
        overlapping == line_grs_range(ls.line_grs,
                                      FloorPos(ls.line_grs, range_.start),
                                      CeilPos(ls.line_grs, range_.end))
        line_gr_range == overlapping.offsets
        line_gr1 == overlapping.elems[1]
        line_gr2 == IF Len(overlapping.elems) >= 2
                    THEN Some(overlapping.elems[Len(overlapping.elems)])
                    ELSE None
    IN IF /\ line_gr2 = None
          /\ (range_.start # line_gr_range.start \/ range_.end # line_gr_range.end)
       THEN remove_within(ls, range_, lod_gr_i1, line_gr1, line_gr_range)
       ELSE remove_bulk(remove_end(ls, range_, line_gr2, line_gr_range),
                        range_, lod_gr_i1, line_gr1, line_gr2, line_gr_range)

\* Lineset::remove
Lineset_remove(ls, range_) ==
    IF range_.end <= range_.start THEN ls ELSE remove_lines(ls, range_)

\* Lineset::validate: every assertion of it holds
Lineset_validate(ls) ==
    /\ (ls.lod_grs = <<>>) <=> (ls.line_grs = <<>>)
    /\ ls.lod_grs # <<>> =>
        /\ ls.lod_grs[1].index = 0
        /\ \A i \in 0..(Len(ls.lod_grs) - 1) :
            LET lod_gr == ls.lod_grs[i + 1]
                start == lod_gr.index
                end_ == lod_gr_end_of(ls.lod_grs, i, offset_len_index(ls.line_grs))
                inside == line_grs_range(ls.line_grs,
                                         FloorPos(ls.line_grs, start),
                                         FloorPos(ls.line_grs, end_))
                size_range == lod_size_range(lod_gr.lod)
            IN /\ start < end_
               /\ inside.offsets.start = start
               /\ inside.offsets.end = end_
               /\ \A k \in 1..Len(inside.elems) :
                   /\ inside.elems[k].num_lines <= size_range.end
                   /\ IF k = Len(inside.elems)
                      THEN inside.elems[k].num_lines >= 1
                      ELSE inside.elems[k].num_lines >= size_range.start

(***************************************************************************)
(* The state machine: a client of the rope.  It obtains a cursor from the  *)
(* rope as it is (begin, end, last_cursor, find_one) and hands it to the   *)
(* very next call, an insert, remove_at or update_at_with; without a       *)
(* cursor in hand it pushes, pops and searches for bounds.  Between two    *)
(* such rounds it lets go of what the last call returned.                  *)
(***************************************************************************)

\* The comparators a client searches with: `|probe| probe.cmp(&x)` for
\* every offset x in [-1, len + 1]
Cmps(l) == { [x |-> x] : x \in -1..(l + 1) }

\* Both kinds of One
Ones(l) ==
    { [kind |-> k, cmp |-> c] : k \in {"FirstAfter", "LastBefore"}, c \in Cmps(l) }

\* The cursor of an Option<(Cursor, O)> a search returned
CursorOf(ret) == IF ret = None THEN None ELSE Some(ret.val[1])

\* Rope::new
Init ==
    /\ root = Leaf(<<>>)
    /\ len = 0
    /\ cursor = None
    /\ last = [op |-> "new"]
    /\ lineset = Lineset_new

\* The client holds neither a cursor nor the result of a call
Idle == cursor = None /\ last.op = "none"

\* The client lets go of the cursor and of the value the last call returned
Discard ==
    /\ last.op # "none"
    /\ cursor' = None
    /\ last' = [op |-> "none"]
    /\ UNCHANGED <<root, len>>
    /\ UNCHANGED lineset

Begin ==
    /\ Idle
    /\ cursor' = Some(begin(root))
    /\ last' = [op |-> "begin"]
    /\ UNCHANGED <<root, len>>
    /\ UNCHANGED lineset

End ==
    /\ Idle
    /\ cursor' = Some(end(root))
    /\ last' = [op |-> "end"]
    /\ UNCHANGED <<root, len>>
    /\ UNCHANGED lineset

\* last_cursor "may panic or return an invalid value if the rope is empty"
LastCursor ==
    /\ Idle
    /\ ~IsEmpty(root)
    /\ cursor' = Some(last_cursor(root))
    /\ last' = [op |-> "last_cursor"]
    /\ UNCHANGED <<root, len>>
    /\ UNCHANGED lineset

FindOne ==
    /\ Idle
    /\ \E ret \in { find_one(root, len, one) : one \in Ones(len) } :
        /\ cursor' = CursorOf(ret)
        /\ last' = [op |-> "find_one", ret |-> ret]
    /\ UNCHANGED <<root, len>>
    /\ UNCHANGED lineset

InclusiveLowerBoundBy ==
    /\ Idle
    /\ \E c \in Cmps(len) :
        last' = [op |-> "inclusive_lower_bound_by", cmp |-> c,
                 ret |-> inclusive_lower_bound_by(root, len, c)]
    /\ UNCHANGED <<root, len, cursor>>
    /\ UNCHANGED lineset

InclusiveUpperBoundBy ==
    /\ Idle
    /\ \E c \in Cmps(len) :
        last' = [op |-> "inclusive_upper_bound_by", cmp |-> c,
                 ret |-> inclusive_upper_bound_by(root, len, c)]
    /\ UNCHANGED <<root, len, cursor>>
    /\ UNCHANGED lineset

Insert ==
    /\ cursor # None
    /\ \E x \in Elems :
        /\ len + ToOffset(x) <= MaxOffsetLen
        /\ LET r == insert(root, len, x, cursor.val)
           IN /\ root' = r.root
              /\ len' = r.len
              /\ last' = [op |-> "insert", x |-> x, height |-> Height(root)]
    /\ cursor' = None
    /\ UNCHANGED lineset

\* Rope::push_back
PushBack ==
    /\ Idle
    /\ \E x \in Elems :
        /\ len + ToOffset(x) <= MaxOffsetLen
        /\ LET r == insert(root, len, x, end(root))
           IN /\ root' = r.root
              /\ len' = r.len
              /\ last' = [op |-> "push_back", x |-> x, height |-> Height(root)]
    /\ cursor' = None
    /\ UNCHANGED lineset

\* Rope::push_front
PushFront ==
    /\ Idle
    /\ \E x \in Elems :
        /\ len + ToOffset(x) <= MaxOffsetLen
        /\ LET r == insert(root, len, x, begin(root))
           IN /\ root' = r.root
              /\ len' = r.len
              /\ last' = [op |-> "push_front", x |-> x, height |-> Height(root)]
    /\ cursor' = None
    /\ UNCHANGED lineset

\* remove_at must be given a cursor pointing at an element
RemoveAt ==
    /\ cursor # None
    /\ cursor.val # end(root)
    /\ LET r == remove_at(root, len, cursor.val)
       IN /\ root' = r.root
          /\ len' = r.len
          /\ last' = [op |-> "remove_at", ret |-> r.ret,
                      height |-> Height(root)]
    /\ cursor' = None
    /\ UNCHANGED lineset

PopBack ==
    /\ Idle
    /\ LET r == pop_back(root, len)
       IN /\ root' = r.root
          /\ len' = r.len
          /\ last' = [op |-> "pop_back", ret |-> r.ret, height |-> Height(root)]
    /\ cursor' = None
    /\ UNCHANGED lineset

PopFront ==
    /\ Idle
    /\ LET r == pop_front(root, len)
       IN /\ root' = r.root
          /\ len' = r.len
          /\ last' = [op |-> "pop_front", ret |-> r.ret, height |-> Height(root)]
    /\ cursor' = None
    /\ UNCHANGED lineset

First ==
    /\ Idle
    /\ last' = [op |-> "first", ret |-> first(root)]
    /\ UNCHANGED <<root, len, cursor>>
    /\ UNCHANGED lineset

Last ==
    /\ Idle
    /\ last' = [op |-> "last", ret |-> last_(root)]
    /\ UNCHANGED <<root, len, cursor>>
    /\ UNCHANGED lineset

\* update_at_with must be given a cursor pointing at an element
UpdateAtWith ==
    /\ cursor # None
    /\ cursor.val # end(root)
    /\ \E y \in Elems :
        /\ len + ToOffset(y) - ToOffset(get_at(root, cursor.val)) <= MaxOffsetLen
        /\ LET r == update_at_with(root, len, cursor.val, y)
           IN /\ root' = r.root
              /\ len' = r.len
              /\ last' = [op |-> "update_at_with", y |-> y, ret |-> r.ret,
                          at |-> cursor.val]
    /\ cursor' = None
    /\ UNCHANGED lineset

\* The edges a client asks ranges for: Edge::Floor and Edge::Ceil of every
\* offset in [-1, len + 1]
Edges(l) == { [ty |-> t, cmp |-> c] : t \in {"Floor", "Ceil"}, c \in Cmps(l) }

\* Rope::range, iterated forward and reversed
Range ==
    /\ Idle
    /\ \E start_edge, end_edge \in Edges(len) :
        last' = [op |-> "range", start |-> start_edge, end |-> end_edge,
                 ret |-> range(root, len, start_edge, end_edge)]
    /\ UNCHANGED <<root, len, cursor>>
    /\ UNCHANGED lineset

Next ==
    \/ Discard
    \/ Begin
    \/ End
    \/ LastCursor
    \/ FindOne
    \/ InclusiveLowerBoundBy
    \/ InclusiveUpperBoundBy
    \/ Insert
    \/ PushBack
    \/ PushFront
    \/ RemoveAt
    \/ PopBack
    \/ PopFront
    \/ First
    \/ Last
    \/ UpdateAtWith

Spec == Init /\ [][Next]_vars

\* A client that builds the rope by pushing at the back and popping at the
\* front, and asks it for ranges
NextRange ==
    \/ Discard
    \/ PushBack
    \/ PopFront
    \/ Range

SpecRange == Init /\ [][NextRange]_vars

\* The longest lineset LOD groups are derived for
MaxVpLen == 12

\* The most viewports LOD groups are derived for
MaxVps == 2

lod_coverage(lod, scale) == IF lod > 0 THEN scale * 2 ^ (lod - 1) ELSE 0

inverse_lod_coverage(i, scale) ==
    IF i = 0 THEN 0
    ELSE BitLen((i + scale - 1) \div scale - 1) + 1

\* lod_grs_from_vps, struct Vp of a viewport
Vp(range_) ==
    [scale |-> Max(4, (range_.end - range_.start) \div 2), range |-> range_]

\* lod_grs_from_vps, the LOD level a viewport requires at index 0
vp_lod_at_zero(range_) == inverse_lod_coverage(range_.start, Vp(range_).scale)

\* Faulty variant of vp_first_ep: a viewport at index 0 ends where it starts
vp_first_ep_at_start(range_, vp_i) ==
    IF vp_lod_at_zero(range_) = 0
    THEN [index |-> range_.start, vp_i |-> vp_i, lod |-> 1, past |-> TRUE]
    ELSE [index |-> range_.start
                        - lod_coverage(vp_lod_at_zero(range_) - 1, Vp(range_).scale),
          vp_i |-> vp_i, lod |-> vp_lod_at_zero(range_) - 1, past |-> FALSE]

\* lod_grs_from_vps, the first endpoint of a viewport
vp_first_ep(range_, vp_i) ==
    IF vp_lod_at_zero(range_) = 0
    THEN [index |-> range_.end, vp_i |-> vp_i, lod |-> 1, past |-> TRUE]
    ELSE [index |-> range_.start
                        - lod_coverage(vp_lod_at_zero(range_) - 1, Vp(range_).scale),
          vp_i |-> vp_i, lod |-> vp_lod_at_zero(range_) - 1, past |-> FALSE]

\* lod_grs_from_vps, `past_flag_to_delta`
past_flag_to_delta(f) == IF f THEN 1 ELSE -1

\* lod_grs_from_vps, "Find the next endpoint"
vp_next_ep(vp, ep) ==
    LET next_past == IF ep.lod = 0 THEN TRUE ELSE ep.past
        next_lod == (ep.lod + past_flag_to_delta(next_past)) % 256
        coverage == lod_coverage(next_lod - (IF next_past THEN 1 ELSE 0), vp.scale)
    IN [index |-> (IF next_past THEN vp.range.end ELSE vp.range.start)
                      + coverage * past_flag_to_delta(next_past),
        vp_i |-> ep.vp_i, lod |-> next_lod, past |-> next_past]

\* Minimultiset::min
lods_min(lods) ==
    CHOOSE lod \in BagToSet(lods) : \A other \in BagToSet(lods) : lod <= other

\* Minimultiset::remove(old_lod) followed by Minimultiset::insert(lod)
lods_replace(lods, old_lod, lod) ==
    (lods (-) SetToBag({old_lod})) (+) SetToBag({lod})

\* lod_grs_from_vps, the `loop`.  eps holds the upcoming endpoint of every
\* viewport; BinaryHeap::pop gives one of the least index, and which one of
\* several is left open: the set of the results of every order.
RECURSIVE lod_grs_loop(_, _, _, _, _, _, _)
lod_grs_loop(len_, vps, eps, lods, lod_grs, last_index, last_lod) ==
    UNION { LET ep == eps[i]
                lod == IF ep.index > last_index THEN lods_min(lods) ELSE last_lod
                lod_grs1 == IF ep.index > last_index /\ lod # last_lod
                            THEN Append(lod_grs, LodGr(last_index, lod))
                            ELSE lod_grs
                old_lod == (ep.lod - past_flag_to_delta(ep.past)) % 256
            IN IF ep.index >= len_ THEN { lod_grs1 }
               ELSE lod_grs_loop(len_, vps,
                                 [eps EXCEPT ![i] = vp_next_ep(vps[i], ep)],
                                 lods_replace(lods, old_lod, ep.lod),
                                 lod_grs1,
                                 Max(ep.index, last_index),
                                 lod) :
            i \in { i \in DOMAIN eps :
                        \A j \in DOMAIN eps : eps[i].index <= eps[j].index } }

\* The multiset of the LOD levels the first k viewports require at index 0
RECURSIVE lods_at_zero(_, _)
lods_at_zero(viewports, k) ==
    IF k = 0 THEN EmptyBag
    ELSE lods_at_zero(viewports, k - 1) (+) SetToBag({vp_lod_at_zero(viewports[k])})

\* lod_grs_from_vps: the results it can give
lod_grs_from_vps(len_, viewports) ==
    IF len_ = 0 THEN { <<>> }
    ELSE lod_grs_loop(len_,
                      [i \in DOMAIN viewports |-> Vp(viewports[i])],
                      [i \in DOMAIN viewports |-> vp_first_ep(viewports[i], i)],
                      lods_at_zero(viewports, Len(viewports)),
                      <<>>, 0, 255)

\* The line groups a test gives one LOD group (Xorshift32::next_lineset):
\* up to two of a size in lod_size_range(lod), then one of a size from 1 to
\* the maximum, of at most `budget` lines in all
TestLodGroups(lod, budget) ==
    LET sizes == lod_size_range(lod).start..lod_size_range(lod).end
        fulls == {<<>>} \cup { <<LineGr(a)>> : a \in sizes }
                        \cup { <<LineGr(a), LineGr(b)>> : a \in sizes, b \in sizes }
    IN { gs \in { full \o <<LineGr(l)>> :
                      full \in fulls, l \in 1..lod_size_range(lod).end } :
         offset_len_index(gs) <= budget }

\* The linesets of `groups` LOD groups of level lod a test starts from, of
\* at most `budget` lines
RECURSIVE TestLinesets(_, _, _)
TestLinesets(lod, groups, budget) ==
    IF groups = 0 THEN { Lineset_new }
    ELSE UNION { { [line_grs |-> ls.line_grs \o gs,
                    lod_grs |-> Append(ls.lod_grs,
                                       LodGr(offset_len_index(ls.line_grs), lod))] :
                   gs \in TestLodGroups(lod, budget - offset_len_index(ls.line_grs)) } :
                 ls \in TestLinesets(lod, groups - 1, budget - 1) }

\* The ranges a client hands to insert: p..p+c for every position p of the
\* lineset and every count that fits, and an empty and an inverted range
InsertRanges(ls) ==
    { IndexRange(p, p + c) :
          p \in 0..offset_len_index(ls.line_grs),
          c \in (-1)..(MaxLines - offset_len_index(ls.line_grs)) }

\* The ranges a client hands to remove: p1..p2 within the lineset, and an
\* inverted range
RemoveRanges(ls) ==
    { IndexRange(p1, p2) :
          p1 \in 0..offset_len_index(ls.line_grs),
          p2 \in 0..offset_len_index(ls.line_grs) }

\* The calls made to the lineset so far
Calls == IF "calls" \in DOMAIN last THEN last.calls ELSE 0

\* tests: the lineset Xorshift32::next_lineset builds, for lod in [0, 2];
\* a test makes one call to it
NextLineset ==
    /\ last.op = "new"
    /\ \E lod \in {0, 2} : lineset' \in TestLinesets(lod, 4, MaxLines)
    /\ last' = [op |-> "next_lineset", calls |-> MaxCalls - 1]
    /\ UNCHANGED <<root, len, cursor>>

\* Lineset::insert; `before` is the lineset the call was made on
LinesetInsert ==
    /\ Calls < MaxCalls
    /\ \E range_ \in InsertRanges(lineset) :
        /\ lineset' = Lineset_insert(lineset, range_)
        /\ last' = [op |-> "Lineset::insert", range |-> range_,
                    before |-> lineset, calls |-> Calls + 1]
    /\ UNCHANGED <<root, len, cursor>>

\* Lineset::remove
LinesetRemove ==
    /\ Calls < MaxCalls
    /\ \E range_ \in RemoveRanges(lineset) :
        /\ lineset' = Lineset_remove(lineset, range_)
        /\ last' = [op |-> "Lineset::remove", range |-> range_,
                    before |-> lineset, calls |-> Calls + 1]
    /\ UNCHANGED <<root, len, cursor>>

\* A client of the lineset: it starts from an empty lineset or from one a
\* test builds, and inserts and removes lines
NextLines ==
    \/ NextLineset
    \/ LinesetInsert
    \/ LinesetRemove

SpecLineset == Init /\ [][NextLines]_vars

\* The viewports a test hands to lod_grs_from_vps: ranges within [0, len]
ViewportRanges(len_) ==
    UNION { { IndexRange(i1, i2) : i2 \in i1..len_ } : i1 \in 0..len_ }

\* tests::test_lod_grs_from_vps_small: one or two viewports
Viewports(len_) ==
    UNION { [1..n -> ViewportRanges(len_)] : n \in 1..MaxVps }

\* lod_grs_from_vps, for every len and viewports of a test
LodGrsFromVps ==
    /\ last.op = "new"
    /\ \E len_ \in 0..MaxVpLen :
        \E viewports \in Viewports(len_) :
            \E out \in lod_grs_from_vps(len_, viewports) :
                last' = [op |-> "lod_grs_from_vps", len |-> len_,
                         viewports |-> viewports, ret |-> out]
    /\ UNCHANGED <<root, len, cursor, lineset>>

NextVps == LodGrsFromVps

SpecVps == Init /\ [][NextVps]_vars

(***************************************************************************)
(* Definitions the properties are stated with.                             *)
(***************************************************************************)

\* The cumulative offset of the first k elements of a sequence
PrefixSum(s, k) == SumOffsets(SubSeq(s, 1, k))

\* The depths at which the leaves under a node lie
RECURSIVE LeafDepths(_)
LeafDepths(node) ==
    IF IsLeaf(node) THEN {1}
    ELSE { d + 1 : d \in UNION { LeafDepths(node.children[k]) :
                                   k \in 1..Len(node.children) } }

\* Every node under (and including) a non-root node is within [ORDER, 2*ORDER]
RECURSIVE Occupied(_)
Occupied(node) ==
    /\ NodeLen(node) >= ORDER
    /\ NodeLen(node) <= ORDER * 2
    /\ IsInternal(node) =>
           \A k \in 1..Len(node.children) : Occupied(node.children[k])

\* The offsets of every internal node under (and including) a node are the
\* cumulative offsets of its children
RECURSIVE OffsetsCumulative(_)
OffsetsCumulative(node) ==
    IsInternal(node) =>
        /\ Len(node.offsets) = Len(node.children) - 1
        /\ \A i \in 1..Len(node.offsets) :
               node.offsets[i] =
                   SumOffsets(Flatten(Internal(SubSeq(node.children, 1, i), <<>>)))
        /\ \A k \in 1..Len(node.children) : OffsetsCumulative(node.children[k])

\* A cursor that addresses an element of the tree: one index per level,
\* each within its node
RECURSIVE AddressesElement(_, _)
AddressesElement(node, at) ==
    IF IsLeaf(node)
    THEN Len(at) = 1 /\ at[1] >= 0 /\ at[1] < Len(node.elements)
    ELSE /\ Len(at) >= 2
         /\ at[1] >= 0
         /\ at[1] < Len(node.children)
         /\ AddressesElement(node.children[at[1] + 1], Tail(at))

(***************************************************************************)
(* The properties.                                                         *)
(***************************************************************************)

Removals == {"remove_at", "pop_front", "pop_back"}

Insertions == {"insert", "push_back", "push_front"}

BoundSearches == {"inclusive_lower_bound_by", "inclusive_upper_bound_by"}

\* The predicate the last bound search handed to search_by
LastPred ==
    IF last.op = "inclusive_lower_bound_by"
    THEN LowerPred(last.cmp)
    ELSE UpperPred(last.cmp)

\* C1: in every reachable state offset_len() (the cached len) is the sum of
\* to_offset over all the elements in the tree.
C1_OffsetAccounting == len = SumOffsets(Flatten(root))

\* An update that changed an element's offset, in a tree of three levels
C1_Witness ==
    /\ last.op = "update_at_with"
    /\ ToOffset(last.y) # ToOffset(last.ret)
    /\ Height(root) = 3
    /\ len = SumOffsets(Flatten(root))

\* C2: insert(x, at), with `at` addressing position p of the sequence s,
\* makes the sequence s[0..p] ++ [x] ++ s[p..]; push_back appends and
\* push_front prepends.
C2_InsertRefinesSequence ==
    [][/\ last'.op = "insert" =>
              LET s == Flatten(root)
                  p == CursorPos(root, cursor.val)
              IN /\ p >= 0
                 /\ p <= Len(s)
                 /\ Flatten(root') =
                        SubSeq(s, 1, p) \o <<last'.x>> \o SubSeq(s, p + 1, Len(s))
       /\ last'.op = "push_back" => Flatten(root') = Append(Flatten(root), last'.x)
       /\ last'.op = "push_front" => Flatten(root') = <<last'.x>> \o Flatten(root)
      ]_vars

\* An insert that split a leaf, its parent and the root of a tree of two
\* levels, and put an element of offset 2 strictly inside the sequence
C2_Witness ==
    /\ last.op = "insert"
    /\ last.height = 2
    /\ Height(root) = 3
    /\ ToOffset(last.x) = 2
    /\ \E p \in 2..(Len(Flatten(root)) - 1) : Flatten(root)[p] = last.x

\* C3: remove_at(at), with `at` addressing the element at position p of the
\* sequence s, returns s[p] and leaves s with position p deleted.
C3_RemoveRefinesSequence ==
    [][last'.op = "remove_at" =>
           LET s == Flatten(root)
               p == CursorPos(root, cursor.val)
           IN /\ p >= 0
              /\ p < Len(s)
              /\ last'.ret = s[p + 1]
              /\ Flatten(root') = SubSeq(s, 1, p) \o SubSeq(s, p + 2, Len(s))
      ]_vars

\* A remove_at whose merges reached the root of a tree of three levels and
\* collapsed it
C3_Witness ==
    /\ last.op = "remove_at"
    /\ last.height = 3
    /\ Height(root) = 2

\* C4: every non-root node holds between ORDER and 2*ORDER elements or
\* children, and all leaves are at the same depth.
C4_Balance ==
    /\ IsInternal(root) =>
           \A k \in 1..Len(root.children) : Occupied(root.children[k])
    /\ Cardinality(LeafDepths(root)) = 1

\* A removal that left a tree of three levels
C4_Witness ==
    /\ last.op \in Removals
    /\ Height(root) = 3
    /\ \A k \in 1..Len(root.children) : Occupied(root.children[k])

\* C5: every internal node has one offset less than children, and
\* offsets[i] is the sum of to_offset over the elements of children[0..=i].
C5_CumulativeOffsets == OffsetsCumulative(root)

\* A removal that left a tree of three levels with an internal node of three
\* children
C5_Witness ==
    /\ last.op \in Removals
    /\ Height(root) = 3
    /\ \E k \in 1..Len(root.children) : Len(root.children[k].offsets) = ORDER
    /\ OffsetsCumulative(root)

\* A linear scan of the flat sequence s from element k (0-based) on, `start`
\* being the cumulative offset of the elements before k: the first element
\* whose right boundary satisfies f, as [pos, start], or None
RECURSIVE LinearScan(_, _, _, _)
LinearScan(s, f, k, start) ==
    IF k >= Len(s) THEN None
    ELSE IF Apply(f, start + ToOffset(s[k + 1]))
         THEN Some([pos |-> k, start |-> start])
         ELSE LinearScan(s, f, k + 1, start + ToOffset(s[k + 1]))

\* `ret`, an Option<(Cursor, O)>, is the cursor of the element at position
\* pos of the sequence together with the offset `start`
IsElementAt(ret, pos, start) ==
    /\ ret # None
    /\ AddressesElement(root, ret.val[1])
    /\ CursorPos(root, ret.val[1]) = pos
    /\ get_at(root, ret.val[1]) = Flatten(root)[pos + 1]
    /\ ret.val[2] = start

\* C6: for a predicate false at zero and true at offset_len(), search_by
\* returns the cursor of the first element whose right boundary satisfies the
\* predicate and that element's left boundary, as a linear scan finds them.
C6_SearchByIsLinearScan ==
    (last.op \in BoundSearches /\ ~Apply(LastPred, 0) /\ Apply(LastPred, len)) =>
        LET scan == LinearScan(Flatten(root), LastPred, 0, 0)
        IN /\ scan # None
           /\ IsElementAt(last.ret, scan.val.pos, scan.val.start)

\* A search that descended three levels, past the first child at each, to an
\* element that is not the last
C6_Witness ==
    /\ last.op \in BoundSearches
    /\ ~Apply(LastPred, 0)
    /\ Apply(LastPred, len)
    /\ Len(last.ret.val[1]) = 3
    /\ \A k \in 1..3 : last.ret.val[1][k] > 0
    /\ last.ret.val[1] # last_cursor(root)
    /\ last.ret.val[2] = PrefixSum(Flatten(root), CursorPos(root, last.ret.val[1]))

\* C7: search_by returns None exactly when the predicate is true at zero, and
\* (end(), offset_len()) exactly when it is false at zero and at
\* offset_len(); on an empty rope a predicate false at zero yields
\* (end(), zero).
C7_SearchByBoundaries ==
    last.op \in BoundSearches =>
        /\ (last.ret = None) <=> Apply(LastPred, 0)
        /\ (last.ret = Some(<<end(root), len>>))
               <=> (~Apply(LastPred, 0) /\ ~Apply(LastPred, len))
        /\ (IsEmpty(root) /\ ~Apply(LastPred, 0)) => last.ret = Some(<<end(root), 0>>)

\* A bound search of a tree of three levels that returned (end(), offset_len())
C7_Witness ==
    /\ last.op \in BoundSearches
    /\ Height(root) = 3
    /\ ~Apply(LastPred, 0)
    /\ ~Apply(LastPred, len)
    /\ last.ret = Some(<<end(root), len>>)

\* Every element has a positive offset
AllPositive == \A k \in 1..Len(Flatten(root)) : ToOffset(Flatten(root)[k]) > 0

\* C8: with positive offsets, inclusive_lower_bound_by locating x returns
\* None for x < 0, (cursor of e_k, start_k) for start_k <= x < end_k, and
\* (end(), offset_len()) for x >= offset_len().
C8_InclusiveLowerBound ==
    (last.op = "inclusive_lower_bound_by" /\ AllPositive) =>
        LET s == Flatten(root)
            x == last.cmp.x
        IN /\ x < 0 => last.ret = None
           /\ x >= len => last.ret = Some(<<end(root), len>>)
           /\ \A k \in 0..(Len(s) - 1) :
                  (PrefixSum(s, k) <= x /\ x < PrefixSum(s, k + 1)) =>
                      IsElementAt(last.ret, k, PrefixSum(s, k))

\* A lower-bound search locating the last offset inside an element of offset
\* 2, in a tree of three levels
C8_Witness ==
    /\ last.op = "inclusive_lower_bound_by"
    /\ Height(root) = 3
    /\ last.ret # None
    /\ last.ret.val[1] # end(root)
    /\ ToOffset(get_at(root, last.ret.val[1])) = 2
    /\ last.cmp.x = last.ret.val[2] + 1

\* C9: with positive offsets, inclusive_upper_bound_by locating x returns
\* None for x <= 0, (cursor of e_k, start_k) for start_k < x <= end_k, and
\* (end(), offset_len()) for x > offset_len().
C9_InclusiveUpperBound ==
    (last.op = "inclusive_upper_bound_by" /\ AllPositive) =>
        LET s == Flatten(root)
            x == last.cmp.x
        IN /\ x <= 0 => last.ret = None
           /\ x > len => last.ret = Some(<<end(root), len>>)
           /\ \A k \in 0..(Len(s) - 1) :
                  (PrefixSum(s, k) < x /\ x <= PrefixSum(s, k + 1)) =>
                      IsElementAt(last.ret, k, PrefixSum(s, k))

\* An upper-bound search locating the right boundary of an element of offset
\* 2, in a tree of three levels
C9_Witness ==
    /\ last.op = "inclusive_upper_bound_by"
    /\ Height(root) = 3
    /\ last.ret # None
    /\ last.ret.val[1] # end(root)
    /\ ToOffset(get_at(root, last.ret.val[1])) = 2
    /\ last.cmp.x = last.ret.val[2] + 2

\* The structural invariants of the tree and its cached length
Valid(r, l) ==
    /\ l = SumOffsets(Flatten(r))
    /\ OffsetsCumulative(r)
    /\ Cardinality(LeafDepths(r)) = 1
    /\ NodeLen(r) <= ORDER * 2
    /\ IsInternal(r) =>
           /\ NodeLen(r) >= 2
           /\ \A k \in 1..Len(r.children) : Occupied(r.children[k])

\* The cursors of the element at position i that a client obtains from the
\* rope (r, l): from begin(), last_cursor() and find_one
FreshCursors(r, l, i) ==
    { c \in ({begin(r), last_cursor(r)}
             \cup { find_one(r, l, one).val[1] :
                      one \in { o \in Ones(l) : find_one(r, l, o) # None } }) :
        CursorPos(r, c) = i }

\* C10: inserting x at position i and then removing at a cursor freshly
\* obtained for position i returns x and restores offset_len() and the
\* sequence, with the structural invariants holding.
C10_RemovalInverse ==
    [][last'.op = "insert" =>
           LET i == CursorPos(root, cursor.val)
               fresh == FreshCursors(root', len', i)
           IN /\ fresh # {}
              /\ \A at \in fresh :
                     LET r == remove_at(root', len', at)
                     IN /\ r.ret = last'.x
                        /\ r.len = len
                        /\ Flatten(r.root) = Flatten(root)
                        /\ Valid(r.root, r.len)
      ]_vars

\* An insert that grew the tree to three levels; removing the element again
\* leaves three levels
C10_Witness ==
    /\ last.op = "insert"
    /\ last.height = 2
    /\ Height(root) = 3
    /\ \E i \in 0..(Len(Flatten(root)) - 1) :
           /\ FreshCursors(root, len, i) # {}
           /\ \A at \in FreshCursors(root, len, i) :
                  LET r == remove_at(root, len, at)
                  IN r.ret = last.x /\ Height(r.root) = 3 /\ Valid(r.root, r.len)

\* The shape of a tree: its nodes and how many entries each holds
RECURSIVE Shape(_)
Shape(node) ==
    IF IsLeaf(node) THEN [kind |-> "Leaf", n |-> Len(node.elements)]
    ELSE [kind |-> "Internal",
          children |-> [k \in 1..Len(node.children) |-> Shape(node.children[k])]]

\* `after` is `before` with the element at `at` replaced by y and delta added
\* to the offsets at or after the path index in each node on the path of
\* `at`, and nothing else changed
RECURSIVE UpdatedOnPath(_, _, _, _, _)
UpdatedOnPath(before, after, at, y, delta) ==
    IF IsLeaf(before)
    THEN /\ IsLeaf(after)
         /\ Len(after.elements) = Len(before.elements)
         /\ \A j \in 1..Len(before.elements) :
                after.elements[j] = IF j = at[1] + 1 THEN y ELSE before.elements[j]
    ELSE /\ IsInternal(after)
         /\ Len(after.children) = Len(before.children)
         /\ Len(after.offsets) = Len(before.offsets)
         /\ \A j \in 1..Len(before.offsets) :
                after.offsets[j] =
                    before.offsets[j] + (IF j - 1 >= at[1] THEN delta ELSE 0)
         /\ \A k \in 1..Len(before.children) :
                IF k = at[1] + 1
                THEN UpdatedOnPath(before.children[k], after.children[k],
                                   Tail(at), y, delta)
                ELSE after.children[k] = before.children[k]

\* C11: update_at_with at an element cursor returns what f returns (here the
\* replaced element), changes only the addressed element, leaves the shape of
\* the tree alone, and adds delta = to_offset(after) - to_offset(before) to
\* the cached len and to exactly the offsets at or after the path index on
\* the path; the cumulative offsets and the offset accounting still hold.
C11_UpdateFrame ==
    [][last'.op = "update_at_with" =>
           LET s == Flatten(root)
               p == CursorPos(root, cursor.val)
               delta == ToOffset(last'.y) - ToOffset(s[p + 1])
           IN /\ last'.ret = s[p + 1]
              /\ Flatten(root') = [s EXCEPT ![p + 1] = last'.y]
              /\ Shape(root') = Shape(root)
              /\ len' = len + delta
              /\ UpdatedOnPath(root, root', cursor.val, last'.y, delta)
              /\ OffsetsCumulative(root')
              /\ len' = SumOffsets(Flatten(root'))
      ]_vars

\* An update that changed the offset of an element in a tree of three levels,
\* under a middle child of a node below the root: that node has offsets
\* before the path index and offsets at or after it
C11_Witness ==
    /\ last.op = "update_at_with"
    /\ Height(root) = 3
    /\ ToOffset(last.y) # ToOffset(last.ret)
    /\ last.at[2] >= 1
    /\ last.at[2] < Len(root.children[last.at[1] + 1].offsets)
    /\ get_at(root, last.at) = last.y

\* C12: is_empty() is true exactly when the rope holds no elements: an
\* internal root always holds an element, and a removal that takes the last
\* element leaves an empty leaf as the root.
C12_IsEmptyIffNoElements ==
    /\ IsEmpty(root) <=> Flatten(root) = <<>>
    /\ IsInternal(root) => Flatten(root) # <<>>
    /\ (last.op \in Removals /\ Flatten(root) = <<>>) => root = Leaf(<<>>)

\* A remove_at that took the last element of the rope
C12_Witness ==
    /\ last.op = "remove_at"
    /\ Flatten(root) = <<>>
    /\ IsEmpty(root)

\* C13: on an empty rope offset_len() is zero, first() and last() return
\* None, and pop_front() and pop_back() return None and leave root and len
\* as they are.
C13_EmptyRope ==
    IsEmpty(root) =>
        /\ len = 0
        /\ first(root) = None
        /\ last_(root) = None
        /\ pop_front(root, len) = [root |-> root, len |-> len, ret |-> None]
        /\ pop_back(root, len) = [root |-> root, len |-> len, ret |-> None]

\* A pop_back of an empty rope
C13_Witness ==
    /\ last.op = "pop_back"
    /\ last.ret = None
    /\ IsEmpty(root)
    /\ len = 0

\* The client is between two rounds, or has just constructed the rope.  Every
\* rope the client reaches is at rest in some state: Discard changes neither
\* root nor len.
AtRest == cursor = None /\ last.op \in {"none", "new"}

\* Popping the rope (r, l) from the front once per element of s returns the
\* elements of s in order, each pop taking the element's offset off
\* offset_len() and leaving the structural invariants intact; the rope is
\* then empty and one more pop_front returns None
RECURSIVE PopFrontRun(_, _, _)
PopFrontRun(r, l, s) ==
    LET p == pop_front(r, l)
    IN IF s = <<>>
       THEN IsEmpty(r) /\ p.ret = None
       ELSE /\ p.ret = Some(Head(s))
            /\ p.len = l - ToOffset(Head(s))
            /\ Valid(p.root, p.len)
            /\ PopFrontRun(p.root, p.len, Tail(s))

\* C14: n successive pop_front() calls on a rope of n elements return its
\* elements front to back, each decreasing offset_len() by the popped
\* element's offset with the structural invariants intact; then the rope is
\* empty and pop_front() returns None.
C14_PopFrontSequence == AtRest => PopFrontRun(root, len, Flatten(root))

\* A pop_front of a tree of three levels, with elements of both offsets still
\* to pop
C14_Witness ==
    /\ last.op = "pop_front"
    /\ last.ret # None
    /\ last.height = 3
    /\ \E j, k \in 1..Len(Flatten(root)) :
           ToOffset(Flatten(root)[j]) # ToOffset(Flatten(root)[k])
    /\ PopFrontRun(root, len, Flatten(root))

\* Popping the rope (r, l) from the back once per element of s returns the
\* elements of s from the last to the first, with the structural invariants
\* intact after each pop; the rope is then empty
RECURSIVE PopBackRun(_, _, _)
PopBackRun(r, l, s) ==
    IF s = <<>>
    THEN IsEmpty(r)
    ELSE LET p == pop_back(r, l)
         IN /\ p.ret = Some(s[Len(s)])
            /\ Valid(p.root, p.len)
            /\ PopBackRun(p.root, p.len, SubSeq(s, 1, Len(s) - 1))

\* C15: n successive pop_back() calls on a rope of n elements return its
\* elements back to front with the structural invariants intact after each
\* call; then the rope is empty.
C15_PopBackSequence == AtRest => PopBackRun(root, len, Flatten(root))

\* A pop_back of a tree of three levels, with elements of both offsets still
\* to pop
C15_Witness ==
    /\ last.op = "pop_back"
    /\ last.ret # None
    /\ last.height = 3
    /\ \E j, k \in 1..Len(Flatten(root)) :
           ToOffset(Flatten(root)[j]) # ToOffset(Flatten(root)[k])
    /\ PopBackRun(root, len, Flatten(root))

\* C16: on a non-empty rope first() is the first and last() the last element
\* of the sequence, and so are get_at(begin()) and get_at(last_cursor()).
C16_FirstLast ==
    ~IsEmpty(root) =>
        LET s == Flatten(root)
        IN /\ first(root) = Some(s[1])
           /\ last_(root) = Some(s[Len(s)])
           /\ get_at(root, begin(root)) = s[1]
           /\ get_at(root, last_cursor(root)) = s[Len(s)]

\* last() called on a tree of three levels whose first and last elements
\* differ and whose last leaf holds more than one element
C16_Witness ==
    /\ last.op = "last"
    /\ Height(root) = 3
    /\ last.ret = Some(Flatten(root)[Len(Flatten(root))])
    /\ first(root) # last.ret
    /\ last_cursor(root)[3] >= 1

\* C17: a root that is an internal node has between 2 and 2*ORDER children.
C17_RootChildren ==
    IsInternal(root) => (NodeLen(root) >= 2 /\ NodeLen(root) <= 2 * ORDER)

\* A removal whose merges left the root of a tree of three levels with two
\* children
C17_Witness ==
    /\ last.op \in Removals
    /\ last.height = 3
    /\ Height(root) = 3
    /\ NodeLen(root) = 2
    /\ \E k \in 1..2 : NodeLen(root.children[k]) = ORDER

\* The children of every internal node under (and including) a node are all
\* leaves or all internal nodes
RECURSIVE UniformKinds(_)
UniformKinds(node) ==
    IsInternal(node) =>
        /\ \/ \A k \in 1..Len(node.children) : IsLeaf(node.children[k])
           \/ \A k \in 1..Len(node.children) : IsInternal(node.children[k])
        /\ \A k \in 1..Len(node.children) : UniformKinds(node.children[k])

\* C18: the children of each internal node are all leaves or all internal
\* nodes.
C18_UniformChildren == UniformKinds(root)

\* An insertion that grew the tree to three levels: the children of the new
\* root are internal nodes, and theirs are leaves
C18_Witness ==
    /\ last.op \in Insertions
    /\ last.height = 2
    /\ Height(root) = 3
    /\ \A k \in 1..Len(root.children) : IsInternal(root.children[k])
    /\ UniformKinds(root)

\* Every node under (and including) a node is within the capacity of its
\* ArrayVecs: 2*ORDER elements or children, 2*ORDER - 1 offsets
RECURSIVE WithinCapacity(_)
WithinCapacity(node) ==
    /\ NodeLen(node) <= 2 * ORDER
    /\ IsInternal(node) =>
           /\ Len(node.offsets) <= 2 * ORDER - 1
           /\ \A k \in 1..Len(node.children) : WithinCapacity(node.children[k])

\* C19: no node, the root included, ever holds more than 2*ORDER elements or
\* children, nor an internal node more than 2*ORDER - 1 offsets: an insert
\* splits a full node, and a merge joins at most 2*ORDER entries.
C19_NoNodeFull == WithinCapacity(root)

\* A push_front into a full leaf under a full root of a tree of two levels:
\* both were split and the tree grew a level
C19_Witness ==
    /\ last.op = "push_front"
    /\ last.height = 2
    /\ Height(root) = 3
    /\ NodeLen(root) = 2
    /\ WithinCapacity(root)

\* The reference of the range test: the index Floor(v) maps to, found by a
\* scan of the sequence s
floor_idx(s, v) ==
    IF v < 0 THEN 0
    ELSE IF v >= SumOffsets(s) THEN Len(s)
    ELSE CHOOSE i \in 0..(Len(s) - 1) :
             PrefixSum(s, i) <= v /\ v < PrefixSum(s, i + 1)

\* The index Ceil(v) maps to
ceil_idx(s, v) ==
    IF v < 0 THEN 0
    ELSE IF v >= SumOffsets(s) THEN Len(s)
    ELSE CHOOSE i \in 0..Len(s) :
             /\ PrefixSum(s, i) >= v
             /\ \A j \in 0..(i - 1) : PrefixSum(s, j) < v

\* The index an edge maps to
edge_idx(s, edge) ==
    IF edge.ty = "Floor" THEN floor_idx(s, edge.cmp.x) ELSE ceil_idx(s, edge.cmp.x)

\* The sequence s back to front
Reversed(s) == [k \in 1..Len(s) |-> s[Len(s) + 1 - k]]

\* C20: with positive offsets, for every pair of edges Floor or Ceil of
\* offsets in [-1, len + 1], range(start_edge..end_edge) yields the elements
\* from the index of the start edge up to the index of the end edge (none
\* when the end index is not behind the start index), forward and reversed,
\* and the offset range from the start of the first to the start of the
\* element at the end index, as a scan of the sequence finds them.
C20_RangeIsLinearScan ==
    (last.op = "range" /\ AllPositive) =>
        LET s == Flatten(root)
            start_i == edge_idx(s, last.start)
            end_0 == edge_idx(s, last.end)
            end_i == IF end_0 < start_i THEN start_i ELSE end_0
            expected == SubSeq(s, start_i + 1, end_i)
        IN /\ last.ret.elems = expected
           /\ last.ret.rev = Reversed(expected)
           /\ last.ret.offsets = <<PrefixSum(s, start_i), PrefixSum(s, end_i)>>

\* A range of a tree of three levels from the ceiling of an offset inside an
\* element to the floor of an offset inside a later element, yielding
\* elements of more than one leaf
C20_Witness ==
    /\ last.op = "range"
    /\ Height(root) = 3
    /\ last.start.ty = "Ceil"
    /\ last.end.ty = "Floor"
    /\ Len(last.ret.elems) > 2 * ORDER
    /\ last.ret.offsets[1] > last.start.cmp.x
    /\ last.ret.offsets[2] < last.end.cmp.x
    /\ last.ret.rev = Reversed(last.ret.elems)

\* C21: with positive offsets, a range whose end edge resolves at or before
\* its start edge (empty or inverted) yields no element, forward or
\* reversed, and the offset range start_offset..start_offset, start_offset
\* being the offset the start edge resolves to.
C21_EmptyRangeClamped ==
    (last.op = "range" /\ AllPositive) =>
        LET s == Flatten(root)
            start_i == edge_idx(s, last.start)
        IN edge_idx(s, last.end) <= start_i =>
               /\ last.ret.elems = <<>>
               /\ last.ret.rev = <<>>
               /\ last.ret.offsets[1] = PrefixSum(s, start_i)
               /\ last.ret.offsets[2] = last.ret.offsets[1]

\* An inverted range of a tree of three levels: the start edge resolves
\* inside the sequence, the end edge at least two elements before it
C21_Witness ==
    /\ last.op = "range"
    /\ Height(root) = 3
    /\ edge_idx(Flatten(root), last.end) + 2 <= edge_idx(Flatten(root), last.start)
    /\ edge_idx(Flatten(root), last.start) < Len(Flatten(root))
    /\ last.start.ty = "Ceil"
    /\ last.ret.elems = <<>>
    /\ last.ret.offsets[1] > 0
    /\ last.ret.offsets[2] = last.ret.offsets[1]

\* The statement that inclusive_lower_bound_by locating x returns the first
\* element whose left boundary is at or after x
C22_FirstStartingAtOrAfter ==
    (last.op = "inclusive_lower_bound_by" /\ AllPositive) =>
        LET s == Flatten(root)
            x == last.cmp.x
        IN \A k \in 0..(Len(s) - 1) :
               (/\ PrefixSum(s, k) >= x
                /\ \A j \in 0..(k - 1) : PrefixSum(s, j) < x) =>
                   IsElementAt(last.ret, k, PrefixSum(s, k))

\* C22: with positive offsets, inclusive_lower_bound_by locating x with
\* 0 <= x < offset_len() returns the first element that reaches beyond x,
\* i.e. the first element whose right boundary is > x, with that element's
\* left boundary.
C22_FirstEndingAfter ==
    (last.op = "inclusive_lower_bound_by" /\ AllPositive) =>
        LET s == Flatten(root)
            x == last.cmp.x
        IN (0 <= x /\ x < len) =>
               \A k \in 0..(Len(s) - 1) :
                   (/\ PrefixSum(s, k + 1) > x
                    /\ \A j \in 0..(k - 1) : PrefixSum(s, j + 1) <= x) =>
                       IsElementAt(last.ret, k, PrefixSum(s, k))

\* A lower-bound search of a tree of three levels locating an offset
\* strictly inside an element that has a successor: the element returned
\* starts before the offset
C22_Witness ==
    /\ last.op = "inclusive_lower_bound_by"
    /\ Height(root) = 3
    /\ last.ret # None
    /\ last.ret.val[1] # end(root)
    /\ last.ret.val[1] # last_cursor(root)
    /\ last.ret.val[2] > 0
    /\ last.ret.val[2] < last.cmp.x
    /\ last.cmp.x < last.ret.val[2] + ToOffset(get_at(root, last.ret.val[1]))

\* The statement that inclusive_upper_bound_by locating x returns the last
\* element whose right boundary is at or before x
C23_LastEndingAtOrBefore ==
    (last.op = "inclusive_upper_bound_by" /\ AllPositive) =>
        LET s == Flatten(root)
            x == last.cmp.x
        IN \A k \in 0..(Len(s) - 1) :
               (/\ PrefixSum(s, k + 1) <= x
                /\ \A j \in (k + 1)..(Len(s) - 1) : PrefixSum(s, j + 1) > x) =>
                   IsElementAt(last.ret, k, PrefixSum(s, k))

\* C23: with positive offsets, inclusive_upper_bound_by locating x with
\* 0 < x <= offset_len() returns the last element that begins before x,
\* i.e. the last element whose left boundary is < x, with that element's
\* left boundary.
C23_LastStartingBefore ==
    (last.op = "inclusive_upper_bound_by" /\ AllPositive) =>
        LET s == Flatten(root)
            x == last.cmp.x
        IN (0 < x /\ x <= len) =>
               \A k \in 0..(Len(s) - 1) :
                   (/\ PrefixSum(s, k) < x
                    /\ \A j \in (k + 1)..(Len(s) - 1) : PrefixSum(s, j) >= x) =>
                       IsElementAt(last.ret, k, PrefixSum(s, k))

\* An upper-bound search of a tree of three levels locating an offset
\* strictly inside an element that has a predecessor: the element returned
\* ends after the offset
C23_Witness ==
    /\ last.op = "inclusive_upper_bound_by"
    /\ Height(root) = 3
    /\ last.ret # None
    /\ last.ret.val[1] # end(root)
    /\ last.ret.val[2] > 0
    /\ last.ret.val[2] < last.cmp.x
    /\ last.cmp.x < last.ret.val[2] + ToOffset(get_at(root, last.ret.val[1]))

\* The calls that change a lineset
LinesetCalls == {"Lineset::insert", "Lineset::remove"}

\* The number of lines of a lineset
NumLines(ls) == offset_len_index(ls.line_grs)

\* The line group of `ls` the index lies strictly inside of, if any
StrictlyInside(ls, index) ==
    \E k \in 1..Len(ls.line_grs) :
        /\ SumLines(ls.line_grs, k - 1) < index
        /\ index < SumLines(ls.line_grs, k)

\* C24: Lineset::insert(p..p+c) on a lineset of n lines, 0 <= p <= n and
\* c >= 1, leaves a lineset of n + c lines, whichever branch it takes; an
\* empty or inverted range leaves the lineset as it is.
C24_InsertAddsLines ==
    last.op = "Lineset::insert" =>
        LET c == last.range.end - last.range.start
        IN /\ c >= 1 => NumLines(lineset) = NumLines(last.before) + c
           /\ c <= 0 => lineset = last.before

\* An insert strictly inside a line group that split the line group at the
\* insertion point, gave the second half a line of the new ones, put the
\* rest between the halves in a LOD group of its own, and moved a LOD group
\* behind
C24_Witness ==
    /\ last.op = "Lineset::insert"
    /\ StrictlyInside(last.before, last.range.start)
    /\ Len(lineset.line_grs) = Len(last.before.line_grs) + 2
    /\ Len(lineset.lod_grs) = Len(last.before.lod_grs) + 2
    /\ Len(last.before.lod_grs) >= 2
    /\ lineset.lod_grs[Len(lineset.lod_grs)].index
           = last.before.lod_grs[Len(last.before.lod_grs)].index
                 + (last.range.end - last.range.start)
    /\ \E k \in 1..Len(lineset.line_grs) :
           /\ SumLines(lineset.line_grs, k - 1) < last.range.end
           /\ last.range.end < SumLines(lineset.line_grs, k)
    /\ NumLines(lineset) = MaxLines

\* C25: Lineset::remove(p1..p2) on a lineset of n lines, 0 <= p1 < p2 <= n,
\* leaves a lineset of n - (p2 - p1) lines, whether the range lies inside
\* one line group, covers whole line groups or cuts the first and the last
\* it overlaps; an empty or inverted range leaves the lineset as it is.
C25_RemoveTakesLines ==
    last.op = "Lineset::remove" =>
        LET c == last.range.end - last.range.start
        IN /\ c >= 1 => NumLines(lineset) = NumLines(last.before) - c
           /\ c <= 0 => lineset = last.before

\* A remove from strictly inside one line group to strictly inside another,
\* over at least one whole line group in between
C25_Witness ==
    /\ last.op = "Lineset::remove"
    /\ StrictlyInside(last.before, last.range.start)
    /\ StrictlyInside(last.before, last.range.end)
    /\ Len(lineset.line_grs) < Len(last.before.line_grs)
    /\ Len(lineset.lod_grs) < Len(last.before.lod_grs)
    /\ NumLines(lineset) = NumLines(last.before) - (last.range.end - last.range.start)
    /\ NumLines(lineset) > 0

\* C26: Lineset::insert and Lineset::remove made on a lineset that passes
\* Lineset::validate leave one that passes it: lod_grs is empty iff there
\* is no line group, lod_grs[0].index is 0, every LOD group starts before
\* it ends, starts and ends at a line group boundary, and holds line groups
\* of at most 2^lod lines, all but the last of at least the minimum of
\* lod_size_range(lod), the last of at least one.
C26_ValidatePreserved ==
    (last.op \in LinesetCalls /\ Lineset_validate(last.before)) =>
        Lineset_validate(lineset)

\* A remove that left a line group below the minimum of its LOD group and
\* made it the last of a LOD group, in a lineset that passes validate
C26_Witness ==
    /\ last.op = "Lineset::remove"
    /\ Lineset_validate(last.before)
    /\ Len(lineset.lod_grs) > Len(last.before.lod_grs)
    /\ Len(lineset.line_grs) = Len(last.before.line_grs)
    /\ \E i \in 1..(Len(lineset.lod_grs) - 1) :
           lineset.lod_grs[i].lod = lineset.lod_grs[i + 1].lod
    /\ Lineset_validate(lineset)

\* The LOD group of `out` the index lies in, as the test finds it:
\* `Ok(i) => i, Err(i) => i - 1`
GroupAt(out, index) ==
    IF binary_search_by_key(out, index).ok
    THEN binary_search_by_key(out, index).i
    ELSE binary_search_by_key(out, index).i - 1

\* The LOD group of `out` before the index: `Ok(i) => i - 1, Err(i) => i - 1`
GroupBefore(out, index) == binary_search_by_key(out, index).i - 1

\* The least start and the greatest end of the viewports
MinStart(viewports) ==
    CHOOSE m \in { viewports[v].start : v \in DOMAIN viewports } :
        \A v \in DOMAIN viewports : m <= viewports[v].start

MaxEnd(viewports) ==
    CHOOSE m \in { viewports[v].end : v \in DOMAIN viewports } :
        \A v \in DOMAIN viewports : m >= viewports[v].end

\* C27: for len >= 1 and viewports within [0, len], lod_grs_from_vps gives a
\* non-empty list of LOD groups whose first index is 0 and whose indices
\* increase strictly; every non-empty viewport lies in one LOD group of
\* level 0; the LOD group before the least viewport start (when that is
\* > 0) and the one at the greatest viewport end (when that is < len) are
\* of a level other than 0.
C27_LodGrsFromViewports ==
    (last.op = "lod_grs_from_vps" /\ last.len >= 1) =>
        LET out == last.ret
            viewports == last.viewports
        IN /\ out # <<>>
           /\ out[1].index = 0
           /\ \A k \in 1..(Len(out) - 1) : out[k].index < out[k + 1].index
           /\ \A v \in DOMAIN viewports :
                  viewports[v].start # viewports[v].end =>
                      LET gr_i == GroupAt(out, viewports[v].start)
                      IN /\ out[gr_i + 1].lod = 0
                         /\ lod_gr_end_of(out, gr_i, last.len) >= viewports[v].end
           /\ MinStart(viewports) > 0 =>
                  out[GroupBefore(out, MinStart(viewports)) + 1].lod # 0
           /\ MaxEnd(viewports) < last.len =>
                  out[GroupAt(out, MaxEnd(viewports)) + 1].lod # 0

\* Two non-empty viewports apart from each other and from both ends of the
\* lineset, which give five LOD groups
C27_Witness ==
    /\ last.op = "lod_grs_from_vps"
    /\ Len(last.viewports) = 2
    /\ last.viewports[1].start > 0
    /\ last.viewports[1].start < last.viewports[1].end
    /\ last.viewports[1].end < last.viewports[2].start
    /\ last.viewports[2].start < last.viewports[2].end
    /\ last.viewports[2].end < last.len
    /\ Len(last.ret) = 5
    /\ last.ret[2].lod = 0
    /\ last.ret[4].lod = 0

\* A cursor of the current rope with one index per level of the tree, each
\* within its node, so that get_at on it reads an element of the rope
ValidCursor(at) ==
    /\ Len(at) = Height(root)
    /\ AddressesElement(root, at)
    /\ get_at(root, at) = Flatten(root)[CursorPos(root, at) + 1]

\* C28: the cursor begin() or last_cursor() gives for a non-empty rope, and
\* the one search_by gives for a predicate false at zero and true at
\* offset_len(), has one index per level of the tree, each within the node
\* at its level, and so addresses an element; pop_back and last, the public
\* operations built on last_cursor(), give None for an empty rope and leave
\* it as it is, and give an element only for a non-empty rope.
C28_CursorsAddressElements ==
    /\ (last.op = "begin" /\ ~IsEmpty(root)) => ValidCursor(cursor.val)
    /\ last.op = "last_cursor" => ValidCursor(cursor.val)
    /\ (last.op \in BoundSearches /\ ~Apply(LastPred, 0) /\ Apply(LastPred, len)) =>
           /\ last.ret # None
           /\ ValidCursor(last.ret.val[1])
    /\ (last.op = "find_one" /\ last.ret # None) => ValidCursor(last.ret.val[1])
    /\ (last.op = "pop_back" /\ last.ret = None) => (IsEmpty(root) /\ len = 0)
    /\ last.op = "last" =>
           /\ last.ret = None <=> IsEmpty(root)
           /\ last.ret # None => last.ret = Some(get_at(root, last_cursor(root)))
                                 /\ ValidCursor(last_cursor(root))

\* last_cursor() on a tree of three levels whose last leaf holds more than
\* one element
C28_Witness ==
    /\ last.op = "last_cursor"
    /\ Height(root) = 3
    /\ cursor.val[3] >= 1
    /\ ValidCursor(cursor.val)

\* The leaves of a tree
RECURSIVE Leaves(_)
Leaves(node) ==
    IF IsLeaf(node) THEN {node}
    ELSE UNION { Leaves(node.children[k]) : k \in DOMAIN node.children }

\* What insert_sub leaves of a full leaf when x is inserted at index i
LeafSplitAsDescribed(leaf, i, x) ==
    LET res == insert_leaf(leaf, i, x)
        original == res.node.elements
        sibling == res.ret.val[1].elements
    IN /\ res.ret # None
       /\ IsLeaf(res.ret.val[1])
       /\ i >= ORDER =>
              /\ original = SubSeq(leaf.elements, 1, ORDER)
              /\ Len(sibling) = ORDER + 1
              /\ sibling[i - ORDER + 1] = x
       /\ i < ORDER =>
              /\ sibling = SubSeq(leaf.elements, ORDER + 1, 2 * ORDER)
              /\ Len(original) = ORDER + 1
              /\ original[i + 1] = x
       /\ {Len(original), Len(sibling)} = {ORDER, ORDER + 1}
       /\ original \o sibling = VecInsert(leaf.elements, i, x)
       /\ res.ret.val[2] = SumOffsets(original)

\* C29: inserting x at index i into a full leaf (2 * ORDER elements) splits
\* it at ORDER into the original leaf and a new right sibling; x goes to the
\* sibling iff i >= ORDER, so one of the two ends with ORDER and the other
\* with ORDER + 1 elements; the original followed by the sibling is the old
\* leaf with x inserted at i; the length reported for the original leaf is
\* the sum of to_offset over the elements it keeps.  Stated for every full
\* leaf of every reachable rope, every index and every element, and for the
\* rope an insertion into a full root leaf leaves.
C29_FullLeafSplit ==
    /\ AtRest =>
           \A leaf \in Leaves(root) :
               Len(leaf.elements) = 2 * ORDER =>
                   \A i \in 0..(2 * ORDER) : \A x \in Elems :
                       LeafSplitAsDescribed(leaf, i, x)
    /\ (last.op \in Insertions /\ last.height = 1 /\ Height(root) = 2) =>
           /\ Len(root.children) = 2
           /\ {Len(root.children[1].elements), Len(root.children[2].elements)}
                  = {ORDER, ORDER + 1}
           /\ root.offsets = <<SumOffsets(root.children[1].elements)>>
           /\ \E k \in 1..2 : \E j \in DOMAIN root.children[k].elements :
                  root.children[k].elements[j] = last.x

\* An insertion in the front half of a full root leaf: the new element went
\* to the original leaf, which holds ORDER + 1 elements of different lengths
C29_Witness ==
    /\ last.op = "insert"
    /\ last.height = 1
    /\ Height(root) = 2
    /\ Len(root.children[1].elements) = ORDER + 1
    /\ Len(root.children[2].elements) = ORDER
    /\ \E j, k \in 1..(ORDER + 1) :
           ToOffset(root.children[1].elements[j])
               # ToOffset(root.children[1].elements[k])
    /\ root.offsets = <<SumOffsets(root.children[1].elements)>>

\* The internal nodes of a tree
RECURSIVE INodes(_)
INodes(node) ==
    IF IsLeaf(node) THEN {}
    ELSE {node} \cup UNION { INodes(node.children[k]) : k \in DOMAIN node.children }

\* What insert_sub leaves of a full internal node when x is inserted at
\* index j of its child i, a full leaf
INodeSplitAsDescribed(inode, i, j, x) ==
    LET sub == insert_leaf(inode.children[i + 1], j, x)
        res == insert_sub(<<i, j>>, inode, x, ToOffset(x))
        original == res.node
        sibling == res.ret.val[1]
    IN /\ res.ret # None
       /\ IsInternal(sibling)
       /\ i >= ORDER =>
              /\ original.children = SubSeq(inode.children, 1, ORDER)
              /\ Len(sibling.children) = ORDER + 1
              /\ sibling.children[i - ORDER + 1] = sub.node
              /\ sibling.children[i - ORDER + 2] = sub.ret.val[1]
       /\ i < ORDER =>
              /\ sibling.children = SubSeq(inode.children, ORDER + 1, 2 * ORDER)
              /\ Len(original.children) = ORDER + 1
              /\ original.children[i + 1] = sub.node
              /\ original.children[i + 2] = sub.ret.val[1]
       /\ {Len(original.children), Len(sibling.children)} = {ORDER, ORDER + 1}
       /\ original.children \o sibling.children
              = VecInsert([inode.children EXCEPT ![i + 1] = sub.node],
                          i + 1, sub.ret.val[1])
       /\ Len(original.offsets) = Len(original.children) - 1
       /\ Len(sibling.offsets) = Len(sibling.children) - 1
       /\ OffsetsCumulative(original)
       /\ OffsetsCumulative(sibling)
       /\ res.ret.val[2] = SumOffsets(Flatten(original))

\* C30: when child i of a full internal node (2 * ORDER children) has been
\* split, the node is split at ORDER with children[i] and its new sibling
\* next to each other in one half: the new right node iff i >= ORDER, the
\* original node otherwise, for every i in 0..2*ORDER-1; the two nodes hold
\* ORDER and ORDER + 1 children, each has one offset less than children, the
\* offsets counted from its own first child; the length reported for the
\* original node is the total offset of the elements it keeps.  Stated for
\* every full internal node of every reachable rope, every full leaf under
\* it, every index and every element, and for the rope an insertion that
\* splits a full root leaves.
C30_FullINodeSplit ==
    /\ AtRest =>
           \A inode \in INodes(root) :
               Len(inode.children) = 2 * ORDER =>
                   \A i \in 0..(2 * ORDER - 1) :
                       (/\ IsLeaf(inode.children[i + 1])
                        /\ Len(inode.children[i + 1].elements) = 2 * ORDER) =>
                           \A j \in 0..(2 * ORDER) : \A x \in Elems :
                               INodeSplitAsDescribed(inode, i, j, x)
    /\ (last.op \in Insertions /\ last.height = 2 /\ Height(root) = 3) =>
           /\ Len(root.children) = 2
           /\ {Len(root.children[1].children), Len(root.children[2].children)}
                  = {ORDER, ORDER + 1}
           /\ root.offsets = <<SumOffsets(Flatten(root.children[1]))>>
           /\ OffsetsCumulative(root)

\* An insertion that split child ORDER - 1 of a full root: the original node
\* holds ORDER + 1 children, the last two of them the halves of the leaf
C30_Witness ==
    /\ last.op = "insert"
    /\ last.height = 2
    /\ Height(root) = 3
    /\ Len(root.children[1].children) = ORDER + 1
    /\ Len(root.children[2].children) = ORDER
    /\ Len(root.children[1].children[ORDER].elements)
           + Len(root.children[1].children[ORDER + 1].elements) = 2 * ORDER + 1
    /\ \A k \in 1..(ORDER - 1) :
           Len(root.children[1].children[k].elements)
               + Len(root.children[1].children[k + 1].elements) # 2 * ORDER + 1
    /\ root.offsets = <<SumOffsets(Flatten(root.children[1]))>>

\* A rope at rest whose root is a full internal node with a full leaf as
\* its last child
C30_WitnessLastChild ==
    /\ AtRest
    /\ Height(root) = 2
    /\ Len(root.children) = 2 * ORDER
    /\ Len(root.children[2 * ORDER].elements) = 2 * ORDER

\* Every node on the path of the cursor, the root and the leaf included, is
\* full
RECURSIVE PathFull(_, _)
PathFull(node, at) ==
    /\ NodeLen(node) = 2 * ORDER
    /\ IsInternal(node) => PathFull(node.children[at[1] + 1], Tail(at))

\* The cursor the insertion of this step was given
InsertedAt ==
    IF last'.op = "insert" THEN cursor.val
    ELSE IF last'.op = "push_back" THEN end(root)
    ELSE begin(root)

\* The step is a call of insert, push_back or push_front
InsertionStep ==
    /\ last'.op \in Insertions
    /\ last'.op = "insert" => cursor # None
    /\ last'.op # "insert" => Idle

\* C31: an insert makes the tree one level higher iff the split goes out of
\* the root, that is, iff every node on the cursor's path is full; the new
\* root is then an internal node with two children, the former root and its
\* new sibling, and one offset, the total offset of what the former root
\* keeps; otherwise the height and the kind of the root stay, and the root is
\* the former root as insert_sub left it.
C31_RootSplit ==
    [][InsertionStep =>
        LET sub == insert_sub(InsertedAt, root, last'.x, ToOffset(last'.x))
        IN /\ (Height(root') = Height(root) + 1) <=> PathFull(root, InsertedAt)
           /\ PathFull(root, InsertedAt) <=> sub.ret # None
           /\ PathFull(root, InsertedAt) =>
                  /\ IsInternal(root')
                  /\ Len(root'.children) = 2
                  /\ root'.children = <<sub.node, sub.ret.val[1]>>
                  /\ IsLeaf(sub.node) = IsLeaf(root)
                  /\ Len(root'.offsets) = 1
                  /\ root'.offsets[1] = SumOffsets(Flatten(root'.children[1]))
                  /\ Flatten(root') = VecInsert(Flatten(root),
                                                CursorPos(root, InsertedAt), last'.x)
           /\ ~PathFull(root, InsertedAt) =>
                  /\ Height(root') = Height(root)
                  /\ IsLeaf(root') = IsLeaf(root)
                  /\ root' = sub.node
    ]_vars

\* A push_back that split the last leaf and the full root above it: the new
\* root holds the two halves of the former root
C31_Witness ==
    /\ last.op = "push_back"
    /\ last.height = 2
    /\ Height(root) = 3
    /\ Len(root.children) = 2
    /\ Len(root.children[1].children) = ORDER
    /\ Len(root.children[2].children) = ORDER + 1
    /\ root.offsets = <<SumOffsets(Flatten(root.children[1]))>>

\* The entries of a node: the elements of a leaf, the children of an
\* internal node
Entries(node) == IF IsLeaf(node) THEN node.elements ELSE node.children

\* The client holds the cursor of an element of the rope
HoldsElementCursor == cursor # None /\ cursor.val # end(root)

\* The children of `after` other than those at the (1-based) positions in
\* `touched` are those of `before`
OtherChildrenKept(before, after, touched) ==
    \A k \in DOMAIN before.children \ touched :
        k \in DOMAIN after.children /\ after.children[k] = before.children[k]

\* remove_sub rotates as described at every internal node on the path `at`
\* where the removal leaves the child short of ORDER entries
RECURSIVE RotationsAsDescribed(_, _)
RotationsAsDescribed(node, at) ==
    IsInternal(node) =>
        LET i == at[1]
            sub == remove_sub(Tail(at), node.children[i + 1])
            res == remove_sub(at, node)
            kept == Entries(sub.node)
            right_gives == /\ i + 1 < Len(node.children)
                           /\ NodeLen(node.children[i + 2]) > ORDER
            left_gives == /\ ~right_gives
                          /\ i > 0
                          /\ NodeLen(node.children[i]) > ORDER
        IN /\ RotationsAsDescribed(node.children[i + 1], Tail(at))
           /\ (sub.underflow /\ right_gives) =>
                  /\ Entries(res.node.children[i + 1])
                         = Append(kept, Head(Entries(node.children[i + 2])))
                  /\ Entries(res.node.children[i + 2])
                         = Tail(Entries(node.children[i + 2]))
                  /\ OtherChildrenKept(node, res.node, {i + 1, i + 2})
           /\ (sub.underflow /\ left_gives) =>
                  LET left == Entries(node.children[i])
                  IN /\ Entries(res.node.children[i + 1])
                            = <<left[Len(left)]>> \o kept
                     /\ Entries(res.node.children[i])
                            = SubSeq(left, 1, Len(left) - 1)
                     /\ OtherChildrenKept(node, res.node, {i, i + 1})
           /\ (sub.underflow /\ (right_gives \/ left_gives)) =>
                  /\ Len(kept) = ORDER - 1
                  /\ Len(res.node.children) = Len(node.children)
                  /\ NodeLen(res.node.children[i + 1]) = ORDER
                  /\ ~res.underflow

\* C32: when a removal leaves child i of an internal node with fewer than
\* ORDER entries and the right sibling has more than ORDER, one entry moves
\* from the front of the right sibling to the back of child i; otherwise,
\* when the left sibling has more than ORDER, one entry moves from its back
\* to the front of child i; in both cases the parent keeps its number of
\* children, child i ends with ORDER entries and no underflow is reported.
\* Stated for the removal at every cursor of an element a client can hold.
C32_Rotation == HoldsElementCursor => RotationsAsDescribed(root, cursor.val)

\* The client holds a cursor into the first internal node of a tree of three
\* levels; removing the element merges two leaves there and the node takes a
\* leaf from its right sibling
C32_Witness ==
    /\ HoldsElementCursor
    /\ Height(root) = 3
    /\ cursor.val[1] = 0
    /\ Len(root.children[1].children) = ORDER
    /\ Len(root.children[2].children) = ORDER + 1
    /\ LET r == remove_at(root, len, cursor.val)
       IN /\ Height(r.root) = 3
          /\ Len(r.root.children[1].children) = ORDER
          /\ Len(r.root.children[2].children) = ORDER
          /\ r.root.children[1].children[ORDER] = root.children[2].children[1]
    /\ RotationsAsDescribed(root, cursor.val)

\* The client holds a cursor into a leaf of ORDER elements between two
\* leaves that can both give an element away
C32_WitnessBothSiblings ==
    /\ HoldsElementCursor
    /\ Height(root) = 2
    /\ cursor.val[1] = 1
    /\ Len(root.children) >= 3
    /\ Len(root.children[1].elements) > ORDER
    /\ Len(root.children[2].elements) = ORDER
    /\ Len(root.children[3].elements) > ORDER

\* remove_sub merges as described at every internal node on the path `at`
\* where the removal leaves the child short of ORDER entries and no sibling
\* next to it holds more than ORDER
RECURSIVE MergesAsDescribed(_, _)
MergesAsDescribed(node, at) ==
    IsInternal(node) =>
        LET i == at[1]
            sub == remove_sub(Tail(at), node.children[i + 1])
            res == remove_sub(at, node)
            kept == Entries(sub.node)
            has_left == i > 0
            has_right == i + 1 < Len(node.children)
            right_gives == has_right /\ NodeLen(node.children[i + 2]) > ORDER
            left_gives == has_left /\ NodeLen(node.children[i]) > ORDER
            merged == Len(res.node.children) = Len(node.children) - 1
            \* the 0-based position of the left one of the two merged children
            k == IF has_left THEN i - 1 ELSE i
        IN /\ MergesAsDescribed(node.children[i + 1], Tail(at))
           /\ merged <=> (sub.underflow /\ ~right_gives /\ ~left_gives)
           /\ ~merged => Len(res.node.children) = Len(node.children)
           /\ merged =>
                  /\ has_left \/ has_right
                  /\ Entries(res.node.children[k + 1])
                         = IF has_left
                           THEN Entries(node.children[i]) \o kept
                           ELSE kept \o Entries(node.children[i + 2])
                  /\ NodeLen(res.node.children[k + 1]) = 2 * ORDER - 1
                  /\ Len(res.node.offsets) = Len(node.offsets) - 1
                  /\ \A j \in 1..k : res.node.children[j] = node.children[j]
                  /\ \A j \in (k + 3)..Len(node.children) :
                         res.node.children[j - 1] = node.children[j]
                  /\ OffsetsCumulative(res.node)
                  /\ res.underflow <=> Len(res.node.children) < ORDER

\* C33: a merge happens only when the child left short of ORDER entries has
\* no sibling next to it with more than ORDER entries; it joins the child
\* and one sibling next to it, the left one's entries in front, into one node
\* of 2 * ORDER - 1 entries, takes one child and one offset from the parent,
\* and reports underflow iff the parent then holds fewer than ORDER children.
\* Stated for the removal at every cursor of an element a client can hold.
C33_Merge == HoldsElementCursor => MergesAsDescribed(root, cursor.val)

\* The client holds a cursor into the last internal node of a tree of three
\* levels whose internal nodes all hold ORDER children; removing the element
\* merges two leaves and then the two internal nodes, and the root, left with
\* one child, reports underflow
C33_Witness ==
    /\ HoldsElementCursor
    /\ Height(root) = 3
    /\ Len(root.children) = 2
    /\ cursor.val[1] = 1
    /\ LET sub == remove_sub(cursor.val, root)
       IN /\ sub.underflow
          /\ Len(sub.node.children) = 1
          /\ Len(sub.node.children[1].children) = 2 * ORDER - 1
    /\ MergesAsDescribed(root, cursor.val)

\* The step is a call of remove_at, pop_front or pop_back that removed an
\* element
RemovalStep ==
    /\ last'.op \in Removals
    /\ last'.op = "remove_at" => HoldsElementCursor
    /\ last'.op # "remove_at" => (Idle /\ ~IsEmpty(root))

\* The cursor the removal of this step was given
RemovedAt ==
    IF last'.op = "remove_at" THEN cursor.val
    ELSE IF last'.op = "pop_back" THEN last_cursor(root)
    ELSE begin(root)

RECURSIVE LeafAt(_, _)
LeafAt(node, at) ==
    IF IsLeaf(node) THEN node ELSE LeafAt(node.children[at[1] + 1], Tail(at))

\* The tree with x put at the cursor's index into the leaf the cursor leads
\* to and d added to the offsets at or after the path index in every
\* internal node on the path; everything else as it is
RECURSIVE WithElementAt(_, _, _, _)
WithElementAt(node, at, x, d) ==
    IF IsLeaf(node)
    THEN Leaf(SubSeq(node.elements, 1, at[1]) \o <<x>>
                  \o SubSeq(node.elements, at[1] + 1, Len(node.elements)))
    ELSE Internal(
             [k \in DOMAIN node.children |->
                 IF k = at[1] + 1
                 THEN WithElementAt(node.children[k], Tail(at), x, d)
                 ELSE node.children[k]],
             [k \in DOMAIN node.offsets |->
                 IF k - 1 >= at[1] THEN node.offsets[k] + d ELSE node.offsets[k]])

\* C35: when the leaf the cursor leads to holds fewer than 2 * ORDER
\* elements, insert(x, at) puts x at the cursor's index into that leaf and
\* adds to_offset(x) to the offsets at or after the path index in each
\* internal node on the path and to the cached len; no node is created and
\* nothing else changes.  Stated for every cursor a client can hold (the
\* cursors of begin() and end(), which push_front and push_back insert at,
\* among them) and every element.
C35_InsertFrame ==
    (cursor # None /\ Len(LeafAt(root, cursor.val).elements) < 2 * ORDER) =>
        \A x \in Elems :
            LET r == insert(root, len, x, cursor.val)
            IN /\ r.root = WithElementAt(root, cursor.val, x, ToOffset(x))
               /\ r.len = len + ToOffset(x)
               /\ Shape(r.root) = Shape(WithElementAt(root, cursor.val, x, 0))
               /\ Height(r.root) = Height(root)

\* The client holds a cursor into the first subtree of a tree of three
\* levels, at a leaf with room, not at its front; the insertion moves both
\* offsets of the root's first child or the root's only offset
C35_Witness ==
    /\ cursor # None
    /\ Height(root) = 3
    /\ cursor.val[1] = 0
    /\ cursor.val[2] = 1
    /\ cursor.val[3] >= 1
    /\ Len(root.children[1].children) = ORDER + 1
    /\ Len(LeafAt(root, cursor.val).elements) < 2 * ORDER
    /\ \A x \in Elems :
           LET r == insert(root, len, x, cursor.val)
           IN /\ r.root.offsets[1] = root.offsets[1] + ToOffset(x)
              /\ r.root.children[1].offsets[1] = root.children[1].offsets[1]
              /\ r.root.children[1].offsets[2]
                     = root.children[1].offsets[2] + ToOffset(x)
              /\ r.root.children[2] = root.children[2]

\* The total offset of an entry of `node`: an element of a leaf or a child
\* of an internal node
EntryOffset(node, entry) ==
    IF IsLeaf(node) THEN ToOffset(entry) ELSE SumOffsets(Flatten(entry))

\* The rotations of remove_sub on the path `at` change the offsets of the
\* parent and the two siblings as described.  `children` and `offsets` are
\* those of the internal node when the removal below it has returned.
RECURSIVE RotationOffsetsAsDescribed(_, _)
RotationOffsetsAsDescribed(node, at) ==
    IsInternal(node) =>
        LET i == at[1]
            sub == remove_sub(Tail(at), node.children[i + 1])
            res == remove_sub(at, node)
            children == [j \in DOMAIN node.children |->
                            IF j = i + 1 THEN sub.node ELSE node.children[j]]
            offsets == [j \in DOMAIN node.offsets |->
                           IF j - 1 >= i THEN node.offsets[j] - sub.len
                           ELSE node.offsets[j]]
            right_gives == /\ i + 1 < Len(children)
                           /\ NodeLen(children[i + 2]) > ORDER
            left_gives == /\ ~right_gives
                          /\ i > 0
                          /\ NodeLen(children[i]) > ORDER
            \* the 0-based position of the left one of the two siblings
            k == IF right_gives THEN i ELSE i - 1
            left == children[k + 1]
            right == children[k + 2]
            moved == IF right_gives
                     THEN EntryOffset(right, Head(Entries(right)))
                     ELSE EntryOffset(left, Entries(left)[NodeLen(left)])
        IN /\ RotationOffsetsAsDescribed(node.children[i + 1], Tail(at))
           /\ (sub.underflow /\ (right_gives \/ left_gives)) =>
                  /\ res.node.offsets[k + 1]
                         = offsets[k + 1] + (IF right_gives THEN moved ELSE -moved)
                  /\ \A j \in DOMAIN offsets \ {k + 1} :
                         res.node.offsets[j] = offsets[j]
                  /\ DOMAIN res.node.offsets = DOMAIN offsets
                  /\ Flatten(res.node.children[k + 1])
                         \o Flatten(res.node.children[k + 2])
                             = Flatten(left) \o Flatten(right)
                  /\ Entries(res.node.children[k + 1])
                         \o Entries(res.node.children[k + 2])
                             = Entries(left) \o Entries(right)
                  /\ OffsetsCumulative(res.node.children[k + 1])
                  /\ OffsetsCumulative(res.node.children[k + 2])

\* C36: a rotation between the children k and k + 1 of an internal node
\* changes, of the parent's offsets, only offsets[k]: by plus the total
\* offset of the moved element or subtree when it moves from right to left,
\* by minus it when it moves from left to right; the other offsets of the
\* parent and the content of the two siblings, front to back, stay; the
\* offsets of internal siblings are cumulative from their own first child
\* afterwards.  Stated for the removal at every cursor of an element a
\* client can hold, against the parent's offsets when the removal below it
\* has returned.
C36_RotationFrame ==
    HoldsElementCursor => RotationOffsetsAsDescribed(root, cursor.val)

\* The client holds a cursor into the last internal node of a tree of three
\* levels; removing the element merges two leaves there and the node takes
\* the last leaf of its left sibling, which takes the leaf's total offset
\* from the root's offset
C36_Witness ==
    /\ HoldsElementCursor
    /\ Height(root) = 3
    /\ Len(root.children) = 2
    /\ cursor.val[1] = 1
    /\ Len(root.children[1].children) = ORDER + 1
    /\ Len(root.children[2].children) = ORDER
    /\ LET r == remove_at(root, len, cursor.val)
           moved == root.children[1].children[ORDER + 1]
       IN /\ Height(r.root) = 3
          /\ r.root.children[2].children[1] = moved
          /\ r.root.offsets[1] = root.offsets[1] - SumOffsets(moved.elements)
          /\ Len(moved.elements) > ORDER
    /\ RotationOffsetsAsDescribed(root, cursor.val)

\* The path `at` takes the last child at every internal node and ends past
\* the last element of the leaf it reaches
RECURSIVE IsPastEndPath(_, _)
IsPastEndPath(node, at) ==
    IF IsLeaf(node)
    THEN at = <<Len(node.elements)>>
    ELSE /\ Len(at) >= 2
         /\ at[1] = Len(node.children) - 1
         /\ IsPastEndPath(node.children[Len(node.children)], Tail(at))

\* C37: in every reachable rope begin() is the path of zeros with one index
\* per level of the tree; end() takes the last child at every internal level
\* and its leaf index is the number of elements of the last leaf;
\* last_cursor() of a non-empty rope is end() with the leaf index one less;
\* on an empty rope begin() = end() = [0].  The cursors the client was given
\* by begin(), end() and last_cursor() are these.
C37_BeginEnd ==
    /\ begin(root) = [k \in 1..Height(root) |-> 0]
    /\ Len(end(root)) = Height(root)
    /\ IsPastEndPath(root, end(root))
    /\ end(root)[Height(root)] = Len(LeafAt(root, end(root)).elements)
    /\ ~IsEmpty(root) =>
           /\ last_cursor(root)
                  = [end(root) EXCEPT ![Height(root)] = @ - 1]
           /\ CursorPos(root, last_cursor(root)) = Len(Flatten(root)) - 1
    /\ IsEmpty(root) => (begin(root) = <<0>> /\ end(root) = <<0>>)
    /\ CursorPos(root, end(root)) = Len(Flatten(root))
    /\ CursorPos(root, begin(root)) = 0
    /\ last.op = "begin" => cursor = Some(begin(root))
    /\ last.op = "end" => cursor = Some(end(root))
    /\ last.op = "last_cursor" => cursor = Some(last_cursor(root))

\* end() on a tree of three levels whose first and last leaves hold
\* different numbers of elements
C37_Witness ==
    /\ last.op = "end"
    /\ Height(root) = 3
    /\ cursor = Some(end(root))
    /\ Len(LeafAt(root, begin(root)).elements)
           # Len(LeafAt(root, end(root)).elements)
    /\ Len(root.children[1].children) # Len(root.children[2].children)
    /\ IsPastEndPath(root, cursor.val)

\* The bound search find_one is built on
BoundSearchOf(one) ==
    IF one.kind = "FirstAfter"
    THEN inclusive_lower_bound_by(root, len, one.cmp)
    ELSE inclusive_upper_bound_by(root, len, one.cmp)

\* `ret`, an Option<(Cursor, O)>, is None or the cursor of an element of the
\* rope, not the one-past-end position, with the offset the element starts at
NoneOrElement(ret) ==
    ret # None =>
        /\ ret.val[1] # end(root)
        /\ ValidCursor(ret.val[1])
        /\ ret.val[2] = SumOffsets(SubSeq(Flatten(root), 1,
                                          CursorPos(root, ret.val[1])))
        /\ ~IsEmpty(root)

\* C38: find_one never returns the one-past-end position: it returns None
\* when the bound search returns None or the cursor end(), and otherwise the
\* cursor of an element with the offset the element starts at; on an empty
\* rope it returns None.  Stated for what a call of find_one returned, and at
\* rest for every One with a comparator of an offset in [-1, len + 1].
C38_FindOneNeverEnd ==
    /\ last.op = "find_one" =>
           /\ NoneOrElement(last.ret)
           /\ cursor = CursorOf(last.ret)
    /\ AtRest =>
           \A one \in Ones(len) :
               LET b == BoundSearchOf(one)
                   f == find_one(root, len, one)
               IN /\ NoneOrElement(f)
                  /\ (b = None \/ b.val[1] = end(root)) => f = None
                  /\ (b # None /\ b.val[1] # end(root)) => f = b
                  /\ IsEmpty(root) => f = None

\* A find_one that returned the cursor of an element in the last leaf of a
\* tree of three levels; at the same rope, a search at an offset past the
\* end gives the one-past-end cursor and find_one None
C38_Witness ==
    /\ last.op = "find_one"
    /\ last.ret # None
    /\ Height(root) = 3
    /\ last.ret.val[1][1] = 1
    /\ last.ret.val[2] > 0
    /\ NoneOrElement(last.ret)
    /\ \E one \in Ones(len) :
           /\ BoundSearchOf(one) = Some(<<end(root), len>>)
           /\ find_one(root, len, one) = None

(***************************************************************************)
(* Ropes with elements of offset zero.                                      *)
(***************************************************************************)

\* The largest number of elements of a rope with elements of offset zero
MaxElems == 11

\* The elements of such a rope: the empty string, of offset zero, and a
\* string of one character
ElemsZero == { <<>>, <<"a">> }

\* Rope::push_back of an element that may be of offset zero
PushBackZero ==
    /\ Idle
    /\ Len(Flatten(root)) < MaxElems
    /\ \E x \in ElemsZero :
        /\ len + ToOffset(x) <= MaxOffsetLen
        /\ LET r == insert(root, len, x, end(root))
           IN /\ root' = r.root
              /\ len' = r.len
              /\ last' = [op |-> "push_back", x |-> x, height |-> Height(root)]
    /\ cursor' = None
    /\ UNCHANGED lineset

\* Rope::push_front of an element that may be of offset zero
PushFrontZero ==
    /\ Idle
    /\ Len(Flatten(root)) < MaxElems
    /\ \E x \in ElemsZero :
        /\ len + ToOffset(x) <= MaxOffsetLen
        /\ LET r == insert(root, len, x, begin(root))
           IN /\ root' = r.root
              /\ len' = r.len
              /\ last' = [op |-> "push_front", x |-> x, height |-> Height(root)]
    /\ cursor' = None
    /\ UNCHANGED lineset

\* A client that builds the rope by pushes and pops at both ends, of
\* elements some of which are of offset zero, and searches it for bounds
NextZero ==
    \/ Discard
    \/ PushBackZero
    \/ PushFrontZero
    \/ PopFront
    \/ PopBack
    \/ InclusiveLowerBoundBy
    \/ InclusiveUpperBoundBy

SpecZero == Init /\ [][NextZero]_vars

\* C39: with elements of offset zero in the rope, neither
\* inclusive_lower_bound_by nor inclusive_upper_bound_by returns, for any
\* probe, the cursor of an element of offset zero: every cursor of an
\* element they return is that of an element with start < end, returned
\* with its start.
C39_NoZeroOffsetElement ==
    (/\ last.op \in BoundSearches
     /\ last.ret # None
     /\ last.ret.val[1] # end(root)) =>
        LET at == last.ret.val[1]
            start == SumOffsets(SubSeq(Flatten(root), 1, CursorPos(root, at)))
            end_ == start + ToOffset(get_at(root, at))
        IN /\ ValidCursor(at)
           /\ ToOffset(get_at(root, at)) # 0
           /\ last.ret.val[2] = start
           /\ start < end_

\* A bound search of a tree of two levels that returned the cursor of an
\* element, not the first of its leaf, behind an element of offset zero; the
\* rope begins and ends with elements of offset zero
C39_Witness ==
    /\ last.op \in BoundSearches
    /\ last.ret # None
    /\ last.ret.val[1] # end(root)
    /\ Height(root) >= 2
    /\ last.ret.val[1][1] >= 1
    /\ last.ret.val[1][Height(root)] >= 1
    /\ LET s == Flatten(root)
           pos == CursorPos(root, last.ret.val[1])
       IN /\ ToOffset(s[pos]) = 0
          /\ ToOffset(s[pos + 1]) # 0
          /\ ToOffset(s[1]) = 0
          /\ ToOffset(s[Len(s)]) = 0

====
